---- MODULE Spec2Model ----
(***************************************************************************)
(* Model of the enrichment backend (backend/app): the in-memory history    *)
(* ledger (services/history_service.py), the API handlers that write to    *)
(* and read from it (api/enrichment.py, api/ai_enrichment.py,              *)
(* api/history.py) and the AI agent pipeline                               *)
(* (services/ai_agent_service.py).                                         *)
(*                                                                         *)
(* Python strings are sequences of one-character strings, so that strip(), *)
(* lower(), split() and the regular expressions are computed, not assumed. *)
(* Optional[int] is <<>> (None) or <<n>>; an absent mapping is None.       *)
(***************************************************************************)
EXTENDS Integers, Sequences, FiniteSets, TLC

VARIABLES
    _history,   \* HistoryService._history of one service object under direct calls
    added,      \* add_to_history calls on that object since construction or the last clear
    ret,        \* what the last call on that object returned
    run_adds,   \* add_to_history calls of this run
    uuid,       \* uuid.uuid4() values handed out so far (each call returns a fresh one)
    now,        \* datetime.now() and time.time(), in ticks
    all_results,    \* merge_results' argument (process_enrichment's all_results)
    merged_results, \* what merge_results returned or raised; None before the call
    env,            \* os.environ at import time: which API keys are set
    request,        \* the arguments of the process_enrichment call in progress
    pc,             \* where that call stands: the await it is suspended at
    input_type,     \* process_enrichment's local input_type
    extracted_data, \* process_enrichment's local extracted_data
    sources_used,   \* process_enrichment's local sources_used
    start_time,     \* process_enrichment's local start_time
    pdl_results,        \* process_enrichment's local pdl_results; None before its await
    fullenrich_results, \* process_enrichment's local fullenrich_results
    other_results,      \* process_enrichment's local other_results
    outcome,        \* what process_enrichment returned or raised; None before
    remote_calls,   \* the requests that the process_enrichment call sent, in order
    history_service,    \* the _history of the HistoryService object of each API module
    response,       \* the HTTP response to the last request
    requests,       \* HTTP requests answered in this run
    enrichments,    \* of them to POST /api/enrich and POST /api/ai/enrich
    recorded,       \* ids of the entries that successful enrichment requests recorded
                    \* since the last clear through the history interface, newest first
    tasks,          \* the handler coroutines on the event loop: where each one stands
    running,        \* the coroutine that the event loop is executing, 0 when it is idle
    fn_call,        \* the arguments of a classify_input or extractor call made on its own
    fn_result       \* what that call returned or raised; None before it returns

ledgerVars == <<_history, added, ret, run_adds, uuid, now>>

mergeVars == <<all_results, merged_results>>

pipeVars == <<env, request, pc, input_type, extracted_data, sources_used, start_time,
              pdl_results, fullenrich_results, other_results, outcome, remote_calls>>

apiVars == <<history_service, response, requests, enrichments, recorded>>

loopVars == <<tasks, running>>

callVars == <<fn_call, fn_result>>

vars == <<ledgerVars, mergeVars, pipeVars, apiVars, loopVars, callVars>>

outsideLedger == <<mergeVars, pipeVars, apiVars, loopVars, callVars>>

outsideMerge == <<ledgerVars, pipeVars, apiVars, loopVars, callVars>>

----------------------------------------------------------------------------
(* Python values *)

None == [none |-> TRUE]

Min(a, b) == IF a <= b THEN a ELSE b

Max(a, b) == IF a >= b THEN a ELSE b

UpperCase == <<"A", "B", "C", "D", "E", "F", "G", "H", "I", "J", "K", "L", "M",
               "N", "O", "P", "Q", "R", "S", "T", "U", "V", "W", "X", "Y", "Z">>

LowerCase == <<"a", "b", "c", "d", "e", "f", "g", "h", "i", "j", "k", "l", "m",
               "n", "o", "p", "q", "r", "s", "t", "u", "v", "w", "x", "y", "z">>

Range(s) == {s[i] : i \in DOMAIN s}

\* the lower-case letter of each capital
ToLower == [c \in Range(UpperCase) |-> LowerCase[CHOOSE i \in DOMAIN UpperCase : UpperCase[i] = c]]

\* str.lower() on one character
LowerChar(c) == IF c \in DOMAIN ToLower THEN ToLower[c] ELSE c

\* str.lower()
Lower(s) == [i \in DOMAIN s |-> LowerChar(s[i])]

\* `sub in s` on strings
Contains(s, sub) ==
    \E k \in 0..(Len(s) - Len(sub)) : SubSeq(s, k + 1, k + Len(sub)) = sub

\* seq[:n] for an int n (a negative n counts from the end)
SliceTo(s, n) ==
    IF n >= 0 THEN SubSeq(s, 1, Min(n, Len(s)))
    ELSE SubSeq(s, 1, Max(Len(s) + n, 0))

\* str.strip(): leading and trailing whitespace removed
RECURSIVE StripLeft(_)
StripLeft(s) == IF s # <<>> /\ Head(s) = " " THEN StripLeft(Tail(s)) ELSE s

RECURSIVE StripRight(_)
StripRight(s) ==
    IF s # <<>> /\ s[Len(s)] = " " THEN StripRight(SubSeq(s, 1, Len(s) - 1)) ELSE s

Strip(s) == StripRight(StripLeft(s))

\* str.split(): the maximal runs of non-whitespace characters, in order
RECURSIVE SplitFrom(_, _, _)
SplitFrom(s, i, word) ==
    IF i > Len(s) THEN (IF word = <<>> THEN <<>> ELSE <<word>>)
    ELSE IF s[i] = " "
    THEN (IF word = <<>> THEN <<>> ELSE <<word>>) \o SplitFrom(s, i + 1, <<>>)
    ELSE SplitFrom(s, i + 1, Append(word, s[i]))

Split(s) == SplitFrom(s, 1, <<>>)

Digit == <<"0", "1", "2", "3", "4", "5", "6", "7", "8", "9">>

Letters == Range(UpperCase) \cup Range(LowerCase)

Alnum == Letters \cup Range(Digit)

\* Untyped values (parsed JSON, Dict[str, Any]): tagged by their Python type
PyStr(chars) == [type |-> "str", chars |-> chars]

PyInt(val) == [type |-> "int", val |-> val]

PyBool(val) == [type |-> "bool", val |-> val]

PyList(items) == [type |-> "list", items |-> items]

PyDict(map) == [type |-> "dict", map |-> map]

TypeOf(v) == IF v = None THEN "NoneType" ELSE v.type

\* bool(v)
Truthy(v) ==
    CASE v = None -> FALSE
      [] v.type = "str" -> v.chars # <<>>
      [] v.type = "bool" -> v.val
      [] v.type = "int" -> v.val # 0
      [] v.type = "list" -> v.items # <<>>
      [] v.type = "dict" -> DOMAIN v.map # {}

\* whether hash(v) succeeds
Hashable(v) == TypeOf(v) \in {"NoneType", "str", "int"}

\* dict.get(key), default None
Get(d, key) == IF key \in DOMAIN d.map THEN d.map[key] ELSE None

\* what a call returned, or the exception it raised
Returned(value) == [raised |-> FALSE, value |-> value]

Raised(error) == [raised |-> TRUE, error |-> error]

----------------------------------------------------------------------------
(* services/history_service.py : class HistoryService *)

_max_history_size == 100

HistoryItem(id, input_data, person_data, company_data, timestamp) ==
    [id |-> id, input_data |-> input_data, person |-> person_data,
     company |-> company_data, timestamp |-> timestamp]

\* add_to_history without its size limit
add_without_limit(h, id, input_data, person_data, company_data, timestamp) ==
    <<HistoryItem(id, input_data, person_data, company_data, timestamp)>> \o h

\* add_to_history limiting with self._history[-self._max_history_size:]
add_keeping_tail(h, id, input_data, person_data, company_data, timestamp) ==
    LET inserted == <<HistoryItem(id, input_data, person_data, company_data, timestamp)>> \o h
    IN  IF Len(inserted) > _max_history_size
        THEN SubSeq(inserted, Len(inserted) - _max_history_size + 1, Len(inserted))
        ELSE inserted

\* add_to_history using append() and dropping from the front
add_appending(h, id, input_data, person_data, company_data, timestamp) ==
    LET appended == Append(h, HistoryItem(id, input_data, person_data, company_data, timestamp))
    IN  IF Len(appended) > _max_history_size
        THEN SubSeq(appended, Len(appended) - _max_history_size + 1, Len(appended))
        ELSE appended

\* the value of self._history after add_to_history
add_to_history(h, id, input_data, person_data, company_data, timestamp) ==
    LET history_item == HistoryItem(id, input_data, person_data, company_data, timestamp)
        inserted == <<history_item>> \o h
    IN  IF Len(inserted) > _max_history_size
        THEN SubSeq(inserted, 1, _max_history_size)
        ELSE inserted

get_history(h, limit) ==
    IF limit = <<>> THEN h ELSE SliceTo(h, limit[1])

\* the first item of the loop "for item in self._history" whose id is id
FirstWithId(h, id) ==
    LET hits == {i \in DOMAIN h : h[i].id = id}
    IN  IF hits = {} THEN None
        ELSE h[CHOOSE i \in hits : \A j \in hits : i <= j]

\* get_history_by_id that never looks at the last item of the list
get_among_newer(h, id) == FirstWithId(SubSeq(h, 1, Len(h) - 1), id)
get_history_by_id(h, id) == FirstWithId(h, id)

\* clear_history that leaves a full ledger as it is
clear_when_not_full(h) == IF Len(h) >= _max_history_size THEN h ELSE <<>>

\* the value of self._history after clear_history
clear_history(h) == <<>>

get_history_count(h) == Len(h)

\* search_history comparing the texts as they are, without lower()
search_case_sensitive(h, query) ==
    LET Matches(item) == Contains(item.input_data, query)
    IN  SelectSeq(h, Matches)
search_history(h, query) ==
    LET q == Lower(query)
        Matches(item) == Contains(Lower(item.input_data), q)
    IN  SelectSeq(h, Matches)

----------------------------------------------------------------------------
(* The email and domain patterns (services/ai_agent_service.py and         *)
(* services/pdl_service.py use the same two) and classify_input            *)

LabelMiddleMax == 61

\* re.match(r'^[a-zA-Z0-9._%+-]+@[a-zA-Z0-9.-]+\.[a-zA-Z]{2,}$', s)
MatchesEmailPattern(s) ==
    \E at \in DOMAIN s : \E dot \in DOMAIN s :
        /\ s[at] = "@"
        /\ s[dot] = "."
        /\ at > 1
        /\ \A i \in 1..(at - 1) : s[i] \in Alnum \cup {".", "_", "%", "+", "-"}
        /\ dot > at + 1
        /\ \A i \in (at + 1)..(dot - 1) : s[i] \in Alnum \cup {".", "-"}
        /\ Len(s) >= dot + 2
        /\ \A i \in (dot + 1)..Len(s) : s[i] \in Letters

\* a label: [a-zA-Z0-9]([a-zA-Z0-9-]{0,61}[a-zA-Z0-9])?
IsLabel(l) ==
    /\ l # <<>>
    /\ Len(l) <= LabelMiddleMax + 2
    /\ l[1] \in Alnum
    /\ l[Len(l)] \in Alnum
    /\ \A i \in DOMAIN l : l[i] \in Alnum \cup {"-"}

\* s.split('.')
RECURSIVE SplitOn(_, _, _, _)
SplitOn(s, sep, i, part) ==
    IF i > Len(s) THEN <<part>>
    ELSE IF s[i] = sep THEN <<part>> \o SplitOn(s, sep, i + 1, <<>>)
    ELSE SplitOn(s, sep, i + 1, Append(part, s[i]))

\* re.match(r'^LABEL(\.LABEL)*$', s)
MatchesDomainPattern(s) ==
    LET labels == SplitOn(s, ".", 1, <<>>)
    IN  \A k \in DOMAIN labels : IsLabel(labels[k])

\* without the test for a dot
classify_without_dot_test(input_text) ==
    IF MatchesEmailPattern(Strip(input_text)) THEN "email"
    ELSE IF MatchesDomainPattern(Strip(input_text)) THEN "domain"
    ELSE "natural_language"

\* AIAgentService.classify_input
classify_input(input_text) ==
    IF MatchesEmailPattern(Strip(input_text)) THEN "email"
    ELSE IF MatchesDomainPattern(Strip(input_text)) /\ "." \in Range(input_text) THEN "domain"
    ELSE "natural_language"

\* PDLService.is_email, PDLService.is_domain
is_email(input_data) == MatchesEmailPattern(input_data)

is_domain(input_data) == MatchesDomainPattern(input_data)

----------------------------------------------------------------------------
(* services/ai_agent_service.py : AIAgentService.merge_results *)

MergeLimit == 50

\* `for result in source_results`: the items of a list, the characters of a
\* str, the keys of a dict
Iterable(v) == TypeOf(v) \in {"list", "str", "dict"}

KeysInOrder(map) ==
    CHOOSE ks \in [1..Cardinality(DOMAIN map) -> DOMAIN map] : Range(ks) = DOMAIN map

Iterate(v) ==
    CASE v.type = "list" -> v.items
      [] v.type = "str" -> [i \in DOMAIN v.chars |-> PyStr(<<v.chars[i]>>)]
      [] v.type = "dict" -> [i \in 1..Cardinality(DOMAIN v.map) |-> PyStr(KeysInOrder(v.map)[i])]

\* the inner loop body without the seen_emails test
MergeStepNoDedup(st, result) ==
    IF st.raised THEN st
    ELSE IF TypeOf(result) # "dict"
    THEN Raised("'" \o TypeOf(result) \o "' object has no attribute 'get'")
    ELSE IF ~Truthy(Get(result, "email")) THEN st
    ELSE [raised |-> FALSE, seen_emails |-> st.seen_emails,
          merged |-> Append(st.merged, result)]

\* the body of the inner loop of merge_results: st holds seen_emails and
\* merged, and the exception once one is raised (which ends both loops)
MergeStep(st, result) ==
    IF st.raised THEN st
    ELSE IF TypeOf(result) # "dict"
    THEN Raised("'" \o TypeOf(result) \o "' object has no attribute 'get'")
    ELSE LET email == Get(result, "email")
         IN  IF ~Truthy(email) THEN st
             ELSE IF ~Hashable(email)
             THEN Raised("unhashable type: '" \o TypeOf(email) \o "'")
             ELSE IF email \in st.seen_emails THEN st
             ELSE [raised |-> FALSE, seen_emails |-> st.seen_emails \cup {email},
                   merged |-> Append(st.merged, result)]

\* the inner loop over items[lo..hi], in order (evaluated by halves)
RECURSIVE MergeItems(_, _, _, _)
MergeItems(st, items, lo, hi) ==
    IF lo > hi THEN st
    ELSE IF lo = hi THEN MergeStep(st, items[lo])
    ELSE LET mid == (lo + hi) \div 2
             half == MergeItems(st, items, lo, mid)
         IN  IF half.raised THEN half ELSE MergeItems(half, items, mid + 1, hi)

\* the outer loop over lists[k..]
RECURSIVE MergeLists(_, _, _)
MergeLists(st, lists, k) ==
    IF k > Len(lists) \/ st.raised THEN st
    ELSE IF ~Iterable(lists[k])
    THEN Raised("'" \o TypeOf(lists[k]) \o "' object is not iterable")
    ELSE MergeLists(MergeItems(st, Iterate(lists[k]), 1, Len(Iterate(lists[k]))), lists, k + 1)

\* merge_results returning merged instead of merged[:50]
merge_results_unlimited(lists) ==
    LET st == MergeLists([raised |-> FALSE, seen_emails |-> {}, merged |-> <<>>], lists, 1)
    IN  IF st.raised THEN st ELSE Returned(st.merged)

merge_results(lists) ==
    LET st == MergeLists([raised |-> FALSE, seen_emails |-> {}, merged |-> <<>>], lists, 1)
    IN  IF st.raised THEN st ELSE Returned(SliceTo(st.merged, MergeLimit))

----------------------------------------------------------------------------
(* services/ai_agent_service.py : configuration, extractor and adapters *)

\* os.getenv(name) is set and non-empty, per variable
Environments ==
    { [OPENAI_API_KEY |-> o, PDL_API_KEY |-> p, FULLENRICH_API_KEY |-> f,
       FRECKLE_API_KEY |-> f, TELESCOPE_API_KEY |-> FALSE] : o, p, f \in BOOLEAN }

\* the keys of config.sources, in insertion order
SourceNames == <<"pdl", "fullenrich", "freckle", "telescope">>

\* _load_enrichment_config: enabled = bool(os.getenv(...))
_load_enrichment_config(e) ==
    [pdl |-> [name |-> "People Data Labs", api_key |-> e.PDL_API_KEY,
              enabled |-> e.PDL_API_KEY],
     fullenrich |-> [name |-> "FullEnrich", api_key |-> e.FULLENRICH_API_KEY,
                     enabled |-> e.FULLENRICH_API_KEY],
     freckle |-> [name |-> "Freckle", api_key |-> e.FRECKLE_API_KEY,
                  enabled |-> e.FRECKLE_API_KEY],
     telescope |-> [name |-> "Telescope", api_key |-> e.TELESCOPE_API_KEY,
                    enabled |-> e.TELESCOPE_API_KEY]]

\* ExtractedData(...): the eight fields with their defaults
ExtractedData(target_roles, industries, keywords, region) ==
    [target_roles |-> target_roles, industries |-> industries, region |-> region,
     company_size |-> None, intent |-> None, keywords |-> keywords,
     seniority_level |-> None, department |-> None]

\* the except branch of extract_data_from_natural_language
FallbackExtraction(query) ==
    ExtractedData(<<(<<"e", "x", "e", "c", "u", "t", "i", "v", "e">>)>>,
                  <<(<<"t", "e", "c", "h", "n", "o", "l", "o", "g", "y">>)>>,
                  Split(Lower(query)), None)

\* The text of a completion, as the sequence of its lexical pieces: prose
\* that is no JSON, whitespace, a brace, a member `"key": value` of a JSON
\* object, a JSON value that is no object, and the fence marks ``` and ```json
Piece(tok, key, value) == [tok |-> tok, key |-> key, value |-> value]

Word == Piece("word", "", None)

Space == Piece("space", "", None)

OpenBrace == Piece("{", "", None)

CloseBrace == Piece("}", "", None)

Fence == Piece("fence", "", None)

JsonFence == Piece("json_fence", "", None)

Member(key, value) == Piece("member", key, value)

Scalar(value) == Piece("value", "", value)

NotSpace(piece) == piece.tok # "space"

\* the object that the members between two braces denote: for a repeated
\* key the last member counts
ObjectOf(members) ==
    PyDict([k \in {members[i].key : i \in DOMAIN members} |->
               members[CHOOSE i \in DOMAIN members :
                          /\ members[i].key = k
                          /\ \A j \in DOMAIN members : members[j].key = k => j <= i].value])

\* json.loads(text): whitespace between the pieces is ignored; the text must
\* be one JSON value
json_loads(text) ==
    LET t == SelectSeq(text, NotSpace)
    IN  IF Len(t) = 1 /\ t[1].tok = "value" THEN Returned(t[1].value)
        ELSE IF /\ Len(t) >= 2
                /\ t[1] = OpenBrace
                /\ t[Len(t)] = CloseBrace
                /\ \A i \in 2..(Len(t) - 1) : t[i].tok = "member"
        THEN Returned(ObjectOf(SubSeq(t, 2, Len(t) - 1)))
        ELSE Raised("JSONDecodeError")

\* a match object with its group, or no match
Match(group) == [matched |-> TRUE, group |-> group]

NoMatch == [matched |-> FALSE]

\* text with leading and trailing whitespace removed (what \s* takes)
RECURSIVE Trim(_)
Trim(text) ==
    IF text # <<>> /\ Head(text) = Space THEN Trim(Tail(text))
    ELSE IF text # <<>> /\ text[Len(text)] = Space THEN Trim(SubSeq(text, 1, Len(text) - 1))
    ELSE text

\* re.search(r'```json\s*(.*?)\s*```', content, re.DOTALL): the leftmost
\* ```json that a later ``` follows (the first three characters of another
\* ```json are one), and as group(1) the text up to the nearest such mark
SearchFenced(content) ==
    LET closes(i) == {j \in DOMAIN content : j > i /\ content[j] \in {Fence, JsonFence}}
        opens == {i \in DOMAIN content : content[i] = JsonFence /\ closes(i) # {}}
    IN  IF opens = {} THEN NoMatch
        ELSE LET i == CHOOSE i \in opens : \A k \in opens : i <= k
                 j == CHOOSE j \in closes(i) : \A k \in closes(i) : j <= k
             IN  Match(Trim(SubSeq(content, i + 1, j - 1)))

\* re.search(r'\{.*\}', content, re.DOTALL): from the first opening brace to
\* the last closing brace after it
SearchBraces(content) ==
    LET opening == {i \in DOMAIN content : content[i] = OpenBrace}
        closing == {j \in DOMAIN content : content[j] = CloseBrace}
    IN  IF opening = {} THEN NoMatch
        ELSE LET i == CHOOSE i \in opening : \A k \in opening : i <= k
             IN  IF \A j \in closing : j < i THEN NoMatch
                 ELSE Match(SubSeq(content, i, CHOOSE j \in closing : \A k \in closing : k <= j))

\* lines 108-120: data, or the exception that leaves the inner try statement
ParseContent(content) ==
    LET direct == json_loads(content)
        json_match == SearchFenced(content)
        braces == SearchBraces(content)
    IN  IF ~direct.raised THEN direct
        ELSE IF json_match.matched THEN json_loads(json_match.group)
        ELSE IF braces.matched THEN json_loads(braces.group)
        ELSE Raised("'NoneType' object has no attribute 'group'")

\* a List[str] field of ExtractedData: its value, or none when v is no list
\* of strings
ListOfStr(data, key) ==
    IF key \notin DOMAIN data.map THEN <<(<<>>)>>
    ELSE LET v == data.map[key]
         IN  IF TypeOf(v) = "list" /\ \A i \in DOMAIN v.items : TypeOf(v.items[i]) = "str"
             THEN <<[i \in DOMAIN v.items |-> v.items[i].chars]>>
             ELSE <<>>

\* ExtractedData(**data), for data without company_size, intent,
\* seniority_level and department; keys that are no fields are ignored
ExtractedDataFrom(data) ==
    IF TypeOf(data) # "dict" THEN Raised("argument after ** must be a mapping")
    ELSE IF \/ ListOfStr(data, "target_roles") = <<>>
            \/ ListOfStr(data, "industries") = <<>>
            \/ ListOfStr(data, "keywords") = <<>>
            \/ TypeOf(Get(data, "region")) \notin {"NoneType", "str"}
    THEN Raised("validation error for ExtractedData")
    ELSE Returned(ExtractedData(ListOfStr(data, "target_roles")[1],
                                ListOfStr(data, "industries")[1],
                                ListOfStr(data, "keywords")[1], Get(data, "region")))

\* what the chat completion does
CompletionRaises == [kind |-> "raises"]

NoContent == [kind |-> "no_content"]

Content(content) == [kind |-> "content", content |-> content]

\* the answers used for whole requests: the call raises, or it returns prose
\* without JSON, or a JSON object
Completions ==
    { CompletionRaises,
      Content(<<Word>>),
      Content(<<OpenBrace,
                Member("target_roles", PyList(<<PyStr((<<"c", "t", "o">>))>>)),
                Member("region", PyStr(<<"I", "N">>)),
                CloseBrace>>) }

\* lines 78-122, the try block: the ExtractedData it returns or the exception
\* it raises; has_key: OPENAI_API_KEY is set (self.openai_client raises
\* ValueError otherwise); message.content that is None makes json.loads and
\* then re.search raise TypeError
TryExtract(has_key, completion) ==
    IF ~has_key THEN Raised("OPENAI_API_KEY environment variable is not set")
    ELSE IF completion.kind = "raises" THEN Raised("APIError")
    ELSE IF completion.kind = "no_content" THEN Raised("expected string or bytes-like object")
    ELSE LET data == ParseContent(completion.content)
         IN  IF data.raised THEN data ELSE ExtractedDataFrom(data.value)

\* the except branch with keywords=query.split()
FallbackKeepingCase(tried, query) ==
    IF tried.raised
    THEN Returned(ExtractedData(<<(<<"e", "x", "e", "c", "u", "t", "i", "v", "e">>)>>,
                                <<(<<"t", "e", "c", "h", "n", "o", "l", "o", "g", "y">>)>>,
                                Split(query), None))
    ELSE tried

\* lines 124-131: `except Exception` returns the fallback
ExceptFallback(tried, query) ==
    IF tried.raised THEN Returned(FallbackExtraction(query)) ELSE tried

\* extract_data_from_natural_language: what it returns
extract_data_from_natural_language(query, has_key, completion) ==
    ExceptFallback(TryExtract(has_key, completion), query).value

\* What a provider answers to the one request an adapter sends: the call
\* raises (timeout, connection error, body that is no JSON), or it returns a
\* status code and a parsed JSON body
Reply(status_code, body) == [kind |-> "response", status_code |-> status_code, body |-> body]

Raises == [kind |-> "raises"]

\* body.get(key, []) of a parsed body; a body that is no mapping has no get
GetOrEmptyList(body, key) ==
    IF TypeOf(body) # "dict" THEN Raised("'" \o TypeOf(body) \o "' object has no attribute 'get'")
    ELSE IF key \in DOMAIN body.map THEN Returned(body.map[key])
    ELSE Returned(PyList(<<>>))

\* the part of an adapter after its enabled test: one remote call, [] on
\* every failure
AdapterResult(reply, key) ==
    IF reply.kind = "raises" THEN PyList(<<>>)
    ELSE IF reply.status_code # 200 THEN PyList(<<>>)
    ELSE LET got == GetOrEmptyList(reply.body, key)
         IN  IF got.raised THEN PyList(<<>>) ELSE got.value

\* enrich_from_pdl: [results, remote calls made]
enrich_from_pdl(config, reply) ==
    IF ~config.pdl.enabled THEN [results |-> PyList(<<>>), calls |-> 0]
    ELSE [results |-> AdapterResult(reply, "data"), calls |-> 1]

\* enrich_from_fullenrich
enrich_from_fullenrich(config, reply) ==
    IF ~config.fullenrich.enabled \/ ~config.fullenrich.api_key
    THEN [results |-> PyList(<<>>), calls |-> 0]
    ELSE [results |-> AdapterResult(reply, "contacts"), calls |-> 1]

\* list.extend(v): v's items appended, TypeError when v is not iterable
Extend(results, v) ==
    IF Iterable(v) THEN Returned(results \o Iterate(v))
    ELSE Raised("'" \o TypeOf(v) \o "' object is not iterable")

\* enrich_from_other_sources: the loop over config.sources from source k on;
\* only "fullenrich" has a branch, and an exception in it is swallowed
RECURSIVE OtherSourcesLoop(_, _, _, _, _)
OtherSourcesLoop(config, reply, k, results, made) ==
    IF k > Len(SourceNames) THEN [results |-> PyList(results), calls |-> made]
    ELSE IF SourceNames[k] = "pdl" \/ ~config[SourceNames[k]].enabled
    THEN OtherSourcesLoop(config, reply, k + 1, results, made)
    ELSE IF SourceNames[k] = "fullenrich"
    THEN LET fe == enrich_from_fullenrich(config, reply)
             extended == Extend(results, fe.results)
         IN  OtherSourcesLoop(config, reply, k + 1,
                              IF extended.raised THEN results ELSE extended.value,
                              made + fe.calls)
    ELSE OtherSourcesLoop(config, reply, k + 1, results, made)

enrich_from_other_sources(config, reply) == OtherSourcesLoop(config, reply, 1, <<>>, 0)

\* AIEnrichmentResponse(...); Optional fields are None or a wrapped value
InputTypeOf(name) == [type |-> "InputType", value |-> name]

ErrorText(text) == [type |-> "str", text |-> text]

Seconds(ticks) == [type |-> "float", ticks |-> ticks]

AIEnrichmentResponse(success, data, error, type, extracted, sources, processing_time) ==
    [success |-> success, data |-> data, error |-> error, input_type |-> type,
     extracted_data |-> extracted, sources |-> sources,
     processing_time |-> processing_time]

----------------------------------------------------------------------------
(* services/pdl_service.py : PDLService, and the response models of         *)
(* models/enrichment.py                                                     *)

UpperChar(c) ==
    IF \E i \in DOMAIN LowerCase : LowerCase[i] = c
    THEN UpperCase[CHOOSE i \in DOMAIN LowerCase : LowerCase[i] = c]
    ELSE c

\* str.capitalize()
Capitalize(s) ==
    [i \in DOMAIN s |-> IF i = 1 THEN UpperChar(s[i]) ELSE LowerChar(s[i])]

\* _get_mock_person_data
_get_mock_person_data(email) ==
    LET name_parts == SplitOn(SplitOn(email, "@", 1, <<>>)[1], ".", 1, <<>>)
        first_name == Capitalize(name_parts[1])
        last_name == IF Len(name_parts) > 1 THEN Capitalize(name_parts[2]) ELSE (<<"D", "o", "e">>)
        domain == SplitOn(email, "@", 1, <<>>)[2]
    IN  PyDict([person |-> PyDict([
                    full_name |-> PyStr(first_name \o <<" ">> \o last_name),
                    job_title |-> PyStr((<<"S", "o", "f", "t", "w", "a", "r", "e", " ", "E", "n", "g", "i", "n", "e", "e", "r">>)),
                    email |-> PyStr(email),
                    linkedin_profile |-> PyStr((<<"h", "t", "t", "p", "s", ":", "/", "/", "l", "i", "n", "k", "e", "d", "i", "n", ".", "c", "o", "m", "/", "i", "n", "/">>) \o Lower(first_name) \o Lower(last_name)),
                    company |-> PyStr((<<"E", "x", "a", "m", "p", "l", "e", " ", "C", "o", "r", "p">>))]),
                company |-> PyDict([
                    name |-> PyStr((<<"E", "x", "a", "m", "p", "l", "e", " ", "C", "o", "r", "p">>)),
                    domain |-> PyStr(domain),
                    size |-> PyStr((<<"5", "0", "-", "1", "0", "0", " ", "e", "m", "p", "l", "o", "y", "e", "e", "s">>)),
                    location |-> PyStr((<<"S", "a", "n", " ", "F", "r", "a", "n", "c", "i", "s", "c", "o", ",", " ", "C", "A">>)),
                    industry |-> PyStr((<<"T", "e", "c", "h", "n", "o", "l", "o", "g", "y">>)),
                    website |-> PyStr((<<"h", "t", "t", "p", "s", ":", "/", "/">>) \o domain)])])

\* _get_mock_company_data
_get_mock_company_data(domain) ==
    LET company_name == Capitalize(SplitOn(domain, ".", 1, <<>>)[1]) \o (<<" ", "C", "o", "r", "p">>)
    IN  PyDict([company |-> PyDict([
                    name |-> PyStr(company_name),
                    domain |-> PyStr(domain),
                    size |-> PyStr((<<"1", "0", "0", "-", "5", "0", "0", " ", "e", "m", "p", "l", "o", "y", "e", "e", "s">>)),
                    location |-> PyStr((<<"N", "e", "w", " ", "Y", "o", "r", "k", ",", " ", "N", "Y">>)),
                    industry |-> PyStr((<<"T", "e", "c", "h", "n", "o", "l", "o", "g", "y">>)),
                    website |-> PyStr((<<"h", "t", "t", "p", "s", ":", "/", "/">>) \o domain)])])

\* EmailStr: local part a dot-atom, domain part dot-separated labels ending
\* in a top-level label
ValidEmailStr(v) ==
    /\ TypeOf(v) = "str"
    /\ LET parts == SplitOn(v.chars, "@", 1, <<>>)
       IN  /\ Len(parts) = 2
           /\ LET local == SplitOn(parts[1], ".", 1, <<>>)
                  labels == SplitOn(parts[2], ".", 1, <<>>)
              IN  /\ \A k \in DOMAIN local :
                        /\ local[k] # <<>>
                        /\ \A i \in DOMAIN local[k] :
                              local[k][i] \in Alnum \cup {"_", "%", "+", "-"}
                  /\ Len(labels) >= 2
                  /\ \A k \in DOMAIN labels : IsLabel(labels[k])

StartsWith(s, prefix) == Len(s) >= Len(prefix) /\ SubSeq(s, 1, Len(prefix)) = prefix

\* the characters of s before the first "/", all of s when there is none
UpToSlash(s) == SplitOn(s, "/", 1, <<>>)[1]

\* HttpUrl: scheme http or https, then a host of dot-separated labels ending
\* in a top-level label
ValidHttpUrl(v) ==
    /\ TypeOf(v) = "str"
    /\ \E scheme \in {(<<"h", "t", "t", "p", "s", ":", "/", "/">>), (<<"h", "t", "t", "p", ":", "/", "/">>)} :
          /\ StartsWith(v.chars, scheme)
          /\ LET host == UpToSlash(SubSeq(v.chars, Len(scheme) + 1, Len(v.chars)))
                 labels == SplitOn(host, ".", 1, <<>>)
             IN  /\ Len(labels) >= 2
                 /\ \A k \in DOMAIN labels : IsLabel(Lower(labels[k]))

\* PersonInfo(**person) validates
ValidPersonInfo(person) ==
    /\ Get(person, "email") = None \/ ValidEmailStr(Get(person, "email"))
    /\ Get(person, "linkedin_profile") = None \/ ValidHttpUrl(Get(person, "linkedin_profile"))

\* CompanyInfo(**company_data) validates
ValidCompanyInfo(company) ==
    /\ Get(company, "website") = None \/ ValidHttpUrl(Get(company, "website"))
    /\ Get(company, "linkedin_url") = None \/ ValidHttpUrl(Get(company, "linkedin_url"))

\* clean_string_value, on the None and str values that the bodies used here hold
clean_string_value(value) ==
    IF TypeOf(value) # "str" THEN None
    ELSE IF Strip(value.chars) = <<>> THEN None
    ELSE PyStr(Strip(value.chars))

\* str(v) inside an f-string
Format(v) == IF v = None THEN (<<"N", "o", "n", "e">>) ELSE v.chars

\* d.get(key, {})
GetOrEmptyDict(d, key) == IF key \in DOMAIN d.map THEN d.map[key] ELSE PyDict(<<>>)

Https == <<"h", "t", "t", "p", "s", ":", "/", "/">>

Http == <<"h", "t", "t", "p", ":", "/", "/">>

\* url.startswith(('http://', 'https://'))
HasScheme(url) == StartsWith(url.chars, Http) \/ StartsWith(url.chars, Https)

\* format_url of _parse_pdl_person_response
format_url(url) ==
    IF Truthy(url) /\ ~HasScheme(url) THEN PyStr(Https \o url.chars) ELSE url

\* lines 111-121: the url of the first profile whose network is linkedin,
\* with https:// put before it when it has no scheme
LinkedinProfile(person) ==
    LET profiles == Get(person, "profiles")
        linkedin == IF Truthy(profiles)
                    THEN {i \in DOMAIN profiles.items :
                             Get(profiles.items[i], "network") = PyStr((<<"l", "i", "n", "k", "e", "d", "i", "n">>))}
                    ELSE {}
    IN  IF linkedin = {} THEN None
        ELSE LET profile == profiles.items[CHOOSE i \in linkedin : \A j \in linkedin : i <= j]
                 linkedin_url == clean_string_value(Get(profile, "url"))
             IN  IF ~Truthy(linkedin_url) THEN None
                 ELSE IF ~HasScheme(linkedin_url) THEN PyStr(Https \o linkedin_url.chars)
                 ELSE linkedin_url

\* lines 127-136: the first experience marked is_primary, else the first one
CurrentJob(person) ==
    LET experience == Get(person, "experience")
        primary == IF Truthy(experience)
                   THEN {i \in DOMAIN experience.items :
                            Truthy(Get(experience.items[i], "is_primary"))}
                   ELSE {}
    IN  IF ~Truthy(experience) THEN None
        ELSE IF primary = {} THEN experience.items[1]
        ELSE experience.items[CHOOSE i \in primary : \A j \in primary : i <= j]

\* lines 138-156: company_info
CompanyInfoOf(current_job) ==
    IF ~Truthy(current_job) THEN None
    ELSE LET company_data == GetOrEmptyDict(current_job, "company")
         IN  PyDict([name |-> clean_string_value(Get(company_data, "name")),
                     domain |-> clean_string_value(Get(company_data, "website")),
                     size |-> clean_string_value(Get(company_data, "size")),
                     location |-> clean_string_value(
                                      Get(GetOrEmptyDict(company_data, "location"), "name")),
                     industry |-> clean_string_value(Get(company_data, "industry")),
                     website |-> format_url(clean_string_value(Get(company_data, "website"))),
                     founded |-> Get(company_data, "founded"),
                     linkedin_url |-> format_url(
                                          clean_string_value(Get(company_data, "linkedin_url")))])

\* _parse_pdl_person_response, for a record without location_name, skills
\* and education
_parse_pdl_person_response(data) ==
    LET current_job == CurrentJob(data)
        company_info == CompanyInfoOf(current_job)
        full_name == Strip(Format(clean_string_value(Get(data, "first_name"))) \o <<" ">>
                           \o Format(clean_string_value(Get(data, "last_name"))))
    IN  PyDict([person |-> PyDict([
                    full_name |-> IF full_name = <<>> THEN None ELSE PyStr(full_name),
                    job_title |-> clean_string_value(
                                      IF Truthy(current_job)
                                      THEN Get(GetOrEmptyDict(current_job, "title"), "name")
                                      ELSE Get(data, "job_title")),
                    email |-> clean_string_value(Get(data, "email")),
                    linkedin_profile |-> LinkedinProfile(data),
                    company |-> clean_string_value(
                                    IF company_info # None THEN Get(company_info, "name") ELSE None),
                    location |-> None,
                    skills |-> None,
                    education |-> PyList(<<>>)]),
                company |-> company_info])

\* _parse_pdl_company_response, for a record without a location
_parse_pdl_company_response(data) ==
    PyDict([company |-> PyDict([
                name |-> clean_string_value(Get(data, "name")),
                domain |-> clean_string_value(Get(data, "domain")),
                size |-> clean_string_value(Get(data, "size")),
                location |-> None,
                industry |-> clean_string_value(Get(data, "industry")),
                website |-> clean_string_value(Get(data, "domain"))])])

\* What the PDL client does on a direct lookup: there is no client (no key,
\* no SDK, or its construction failed), the call raises, it answers without
\* usable data, or it answers with a data record
Lookups(e) ==
    IF ~e.PDL_API_KEY THEN { [kind |-> "no_client"] }
    ELSE { [kind |-> "no_client"],
           [kind |-> "raises"],
           [kind |-> "no_data"],
           [kind |-> "data",
            data |-> PyDict([first_name |-> PyStr((<<"J", "o">>)), last_name |-> PyStr((<<"D", "o", "e">>)),
                             email |-> PyStr((<<"j", "@", "a", "c", ".", "c", "o">>)), name |-> PyStr((<<"A", "c">>)),
                             domain |-> PyStr((<<"a", "c", ".", "c", "o">>))])] }

\* enrich_email
enrich_email(email, lookup) ==
    IF lookup.kind = "data" THEN _parse_pdl_person_response(lookup.data)
    ELSE _get_mock_person_data(email)

\* enrich_domain
enrich_domain(domain, lookup) ==
    IF lookup.kind = "data" THEN _parse_pdl_company_response(lookup.data)
    ELSE _get_mock_company_data(domain)

\* enrich_data lines 56-66: the company of the response
CompanyOfResponse(enriched_data) ==
    IF Truthy(Get(enriched_data, "company")) THEN Get(enriched_data, "company")
    ELSE LET person_data == IF "person" \in DOMAIN enriched_data.map
                            THEN enriched_data.map.person ELSE PyDict(<<>>)
         IN  PyDict([name |-> Get(person_data, "job_company_name"),
                     size |-> Get(person_data, "job_company_size"),
                     domain |-> Get(person_data, "job_company_website"),
                     industry |-> Get(person_data, "job_company_industry"),
                     location |-> Get(person_data, "job_company_location_name"),
                     linkedin_url |-> Get(person_data, "job_company_linkedin_url")])

----------------------------------------------------------------------------
(* The parts of the program a run does not exercise stay as they are after  *)
(* import                                                                   *)

\* api/enrichment.py:19, api/history.py:14, api/ai_enrichment.py:10: each
\* module constructs its own HistoryService()
Modules == {"enrichment", "history", "ai_enrichment"}

NoKeys == [OPENAI_API_KEY |-> FALSE, PDL_API_KEY |-> FALSE, FULLENRICH_API_KEY |-> FALSE,
           FRECKLE_API_KEY |-> FALSE, TELESCOPE_API_KEY |-> FALSE]

PipeIdle ==
    /\ request = None
    /\ pc = "idle"
    /\ input_type = None
    /\ extracted_data = None
    /\ sources_used = <<>>
    /\ start_time = 0
    /\ pdl_results = None
    /\ fullenrich_results = None
    /\ other_results = None
    /\ outcome = None
    /\ remote_calls = <<>>

ApiIdle ==
    /\ history_service = [m \in Modules |-> <<>>]
    /\ response = None
    /\ requests = 0
    /\ enrichments = 0
    /\ recorded = <<>>
    /\ tasks = <<>>
    /\ running = 0

CallIdle ==
    /\ fn_call = None
    /\ fn_result = None

----------------------------------------------------------------------------
(* merge_results applied to lists of contact records *)

MaxList == 25       \* records in one result list

\* the address of contact i, in lower or upper case
Address(i, upper) ==
    <<(IF upper THEN "U" ELSE "u"), Digit[(i \div 10) + 1], Digit[(i % 10) + 1], "@", "x">>

\* record j of source k: contact i, every fourth record without a usable email
\* (the field missing, null or empty)
Contact(k, i, j, upper) ==
    CASE j % 4 # 0 -> PyDict([email |-> PyStr(Address(i, upper)), source |-> PyInt(k)])
      [] j % 12 = 4 -> PyDict([name |-> PyInt(i), source |-> PyInt(k)])
      [] j % 12 = 8 -> PyDict([email |-> None, source |-> PyInt(k)])
      [] j % 12 = 0 -> PyDict([email |-> PyStr(<<>>), source |-> PyInt(k)])

\* n records of source k for the contacts first, first + 1, ...
ResultList(k, first, n, upper) ==
    PyList([j \in 1..n |-> Contact(k, first + j - 1, j, upper)])

Lengths == {0, 1, 2, MaxList - 1, MaxList}

MergeIdle ==
    /\ all_results = <<>>
    /\ merged_results = None

MergeInit ==
    /\ \E n1 \in Lengths, n2 \in Lengths, n3 \in Lengths :
       \E first2 \in {1, n1, MaxList + 1}, first3 \in {1, 2 * MaxList + 1}, upper \in BOOLEAN :
          all_results = << ResultList(1, 1, n1, FALSE),
                           ResultList(2, first2, n2, FALSE),
                           ResultList(3, first3, n3, upper) >>
    /\ merged_results = None
    /\ _history = <<>>
    /\ added = 0
    /\ ret = [op |-> "init"]
    /\ run_adds = 0
    /\ uuid = 0
    /\ now = 0
    /\ env = NoKeys
    /\ PipeIdle
    /\ ApiIdle
    /\ CallIdle

MergeResults ==
    /\ merged_results = None
    /\ merged_results' = merge_results(all_results)
    /\ UNCHANGED all_results
    /\ UNCHANGED outsideMerge

MergeNext == MergeResults

SpecMerge == MergeInit /\ [][MergeNext]_vars

----------------------------------------------------------------------------
(* One HistoryService object driven by any sequence of its methods.        *)

MaxAdds == 4        \* add_to_history calls in one run

MockPerson == [full_name |-> <<"J", " ", "D">>, email |-> <<"j", "@", "a", "c", ".", "c", "o">>]

MockCompany == [name |-> <<"A", "c">>, domain |-> <<"a", "c", ".", "c", "o">>]

RepeatedArgs == <<(<<"x", ".", "i", "o">>), None, None>>

\* (input_data, person_data, company_data) of a call
CallArgs ==
    { <<(<<"J", "@", "A", "c", ".", "c", "o">>), MockPerson, None>>,
      <<(<<"a", "c", ".", "c", "o">>), None, MockCompany>>,
      RepeatedArgs }

Limits == {<<>>, <<0>>, <<2>>, <<-1>>, <<_max_history_size + 1>>}

Queries == {<<"A", "C">>, <<"j", "@">>, <<"z">>, <<"d">>}

\* self._history after k calls add_to_history(i, *RepeatedArgs), i = 1..k, at ticks 1..k
\* (the calls lo..hi on h, evaluated by halves)
RECURSIVE AddMany(_, _, _)
AddMany(h, lo, hi) ==
    IF lo > hi THEN h
    ELSE IF lo = hi
    THEN add_to_history(h, lo, RepeatedArgs[1], RepeatedArgs[2], RepeatedArgs[3], lo)
    ELSE LET mid == (lo + hi) \div 2
             half == AddMany(h, lo, mid)
         IN  IF Len(half) >= 0 THEN AddMany(half, mid + 1, hi) ELSE half

AfterAdds(k) == AddMany(<<>>, 1, k)

\* a run starts on a fresh object, or on one that has served some calls already
CallsServed == {0, _max_history_size - 2}

\* the calls served may follow a clear_history() that ended an earlier stretch
\* of add_to_history calls
ServedBeforeClear == {0, _max_history_size}

LedgerInit ==
    /\ \E b \in ServedBeforeClear, k \in CallsServed :
          /\ b = 0 \/ k # 0
          /\ _history = AddMany(IF b = 0 THEN <<>> ELSE clear_history(AfterAdds(b)), b + 1, b + k)
          /\ added = k
          /\ uuid = b + k
          /\ now = b + k
    /\ ret = [op |-> "init"]
    /\ run_adds = 0
    /\ MergeIdle
    /\ env = NoKeys
    /\ PipeIdle
    /\ ApiIdle
    /\ CallIdle

AddToHistory ==
    /\ run_adds < MaxAdds
    /\ run_adds' = run_adds + 1
    /\ \E args \in CallArgs :
          _history' = add_to_history(_history, uuid + 1, args[1], args[2], args[3], now + 1)
    /\ uuid' = uuid + 1
    /\ now' = now + 1
    /\ added' = added + 1
    /\ ret' = [op |-> "add", arg |-> uuid + 1]
    /\ UNCHANGED outsideLedger

GetHistory ==
    /\ \E limit \in Limits :
          ret' = [op |-> "list", arg |-> limit, val |-> get_history(_history, limit)]
    /\ UNCHANGED <<_history, added, run_adds, uuid, now>>
    /\ UNCHANGED outsideLedger

GetHistoryById ==
    /\ \E id \in {1, uuid - 1, uuid, uuid + 1} :
          ret' = [op |-> "get", arg |-> id, val |-> get_history_by_id(_history, id)]
    /\ UNCHANGED <<_history, added, run_adds, uuid, now>>
    /\ UNCHANGED outsideLedger

ClearHistory ==
    /\ _history' = clear_history(_history)
    /\ added' = 0
    /\ ret' = [op |-> "clear"]
    /\ UNCHANGED <<run_adds, uuid, now>>
    /\ UNCHANGED outsideLedger

GetHistoryCount ==
    /\ ret' = [op |-> "count", val |-> get_history_count(_history)]
    /\ UNCHANGED <<_history, added, run_adds, uuid, now>>
    /\ UNCHANGED outsideLedger

SearchHistory ==
    /\ \E query \in Queries :
          ret' = [op |-> "search", arg |-> query, val |-> search_history(_history, query)]
    /\ UNCHANGED <<_history, added, run_adds, uuid, now>>
    /\ UNCHANGED outsideLedger

LedgerNext ==
    \/ AddToHistory
    \/ GetHistory
    \/ GetHistoryById
    \/ ClearHistory
    \/ GetHistoryCount
    \/ SearchHistory

SpecLedger == LedgerInit /\ [][LedgerNext]_vars

----------------------------------------------------------------------------
(* The history ledger under direct calls (SpecLedger) *)

Ids(h) == {h[i].id : i \in DOMAIN h}

\* C1: in every state reachable by add, list, get, search, count and clear
\* calls, the ledger holds at most 100 entries.
C1_AtMostCapacity == Len(_history) <= _max_history_size

\* more than 100 adds without a clear have happened and the ledger is full
C1_Witness == added > _max_history_size /\ Len(_history) = _max_history_size

\* C2: after N adds with no clear the ledger holds min(N, 100) entries, which
\* are the min(N, 100) most recently added ones (the max(N - 100, 0) oldest
\* are absent), and count() returns min(N, 100); so an add on a full ledger
\* drops exactly the oldest entry.
C2_CountAndEviction ==
    /\ Len(_history) = Min(added, _max_history_size)
    /\ Ids(_history) = (uuid - Min(added, _max_history_size) + 1)..uuid
    /\ uuid - added \notin Ids(_history)
    /\ ret.op = "count" => ret.val = Min(added, _max_history_size)

\* count() after 102 adds without a clear
C2_Witness ==
    /\ added = _max_history_size + 2
    /\ ret.op = "count"
    /\ ret.val = _max_history_size
    /\ Ids(_history) = 3..(_max_history_size + 2)

\* ids are handed out in increasing order, so reverse insertion order is
\* strictly decreasing id
NewestFirst(h) == \A i \in 1..(Len(h) - 1) : h[i].id > h[i + 1].id

\* C3: list() returns the surviving entries in reverse order of insertion:
\* the most recently added entry is at the head and every entry precedes all
\* entries added before it, after any sequence of calls.
C3_NewestFirst ==
    /\ NewestFirst(_history)
    /\ added > 0 => _history[1].id = uuid
    /\ (ret.op = "list" /\ ret.arg = <<>>) => (ret.val = _history /\ NewestFirst(ret.val))

\* list() on a full ledger that has evicted entries
C3_Witness ==
    /\ ret.op = "list"
    /\ ret.arg = <<>>
    /\ Len(ret.val) = _max_history_size
    /\ added > _max_history_size
    /\ ret.val[1].id = uuid

----------------------------------------------------------------------------
\* a capital with its lower-case letter, either way round
CasePairs ==
    UNION {{<<UpperCase[i], LowerCase[i]>>, <<LowerCase[i], UpperCase[i]>>} : i \in DOMAIN UpperCase}

\* two characters that differ at most in case
SameLetter(a, b) == a = b \/ <<a, b>> \in CasePairs

\* text holds q at some offset, case disregarded
HoldsIgnoringCase(text, q) ==
    \E k \in 0..(Len(text) - Len(q)) : \A i \in DOMAIN q : SameLetter(text[k + i], q[i])

\* C21: search(q) returns exactly the ledger entries whose input_data contains
\* q as a substring when both are compared case-insensitively (no other field
\* is consulted), in ledger order, and leaves the ledger unchanged.
C21_SearchByInputText ==
    [][ret'.op = "search" =>
          /\ _history' = _history
          /\ LET Wanted(item) == HoldsIgnoringCase(item.input_data, ret'.arg)
             IN  ret'.val = SelectSeq(_history, Wanted)]_vars

\* a search in capitals that returns two entries of a ledger of three, among
\* them one typed with other capitals, and leaves out the third
C21_Witness ==
    /\ ret.op = "search"
    /\ ret.arg = <<"A", "C">>
    /\ Len(ret.val) = 2
    /\ Len(_history) = 3
    /\ \E i \in DOMAIN ret.val : ret.val[i].input_data = <<"J", "@", "A", "c", ".", "c", "o">>
    /\ \E i \in DOMAIN _history : _history[i].input_data = <<"x", ".", "i", "o">>

----------------------------------------------------------------------------
\* a clear_history() call has been made on this object
Cleared == added < uuid

\* C22: from any ledger state, clear() empties the ledger unconditionally:
\* immediately afterwards count() = 0, list() is empty, get(id) is absent for
\* every id and search returns nothing; later adds behave as on a fresh ledger
\* with the same capacity of 100.
C22_ClearEmpties ==
    /\ ret.op = "clear" =>
          /\ _history = <<>>
          /\ get_history_count(_history) = 0
          /\ \A limit \in Limits : get_history(_history, limit) = <<>>
          /\ \A id \in 1..(uuid + 1) : get_history_by_id(_history, id) = None
          /\ \A query \in Queries : search_history(_history, query) = <<>>
    /\ (Cleared /\ added = 0) =>
          /\ ret.op = "count" => ret.val = 0
          /\ ret.op \in {"list", "search"} => ret.val = <<>>
          /\ ret.op = "get" => ret.val = None
    /\ Cleared =>
          /\ Len(_history) = Min(added, _max_history_size)
          /\ \A i \in DOMAIN _history : _history[i].id = uuid - i + 1

\* clear_history() has just been called on a ledger of 100 entries
C22_Witness ==
    /\ ret.op = "clear"
    /\ uuid = _max_history_size
    /\ run_adds = 2
    /\ _history = <<>>

----------------------------------------------------------------------------
\* ids around the newest entry, the oldest entry that may survive and the
\* last clear
Probed ==
    {id \in {1, uuid - _max_history_size, uuid - _max_history_size + 1,
             uuid - added, uuid - added + 1, uuid, uuid + 1} : id >= 1}

\* C23: get(id) returns the entry with that id exactly when such an entry is
\* in the ledger and absent otherwise: an entry is retrievable by its id from
\* its add until it is evicted by the 100th later add or removed by clear, and
\* is absent from then on; the ids of the entries in the ledger are unique.
C23_GetById ==
    /\ Cardinality(Ids(_history)) = Len(_history)
    /\ ret.op = "get" =>
          IF ret.arg \in Ids(_history)
          THEN ret.val.id = ret.arg /\ \E i \in DOMAIN _history : _history[i] = ret.val
          ELSE ret.val = None
    /\ \A id \in Probed :
          get_history_by_id(_history, id) # None
             <=> (id <= uuid /\ uuid - id < _max_history_size /\ uuid - id < added)

\* get(1) finds nothing after the 100th add that followed the add of entry 1
C23_Witness ==
    /\ ret.op = "get"
    /\ ret.arg = 1
    /\ ret.val = None
    /\ added = _max_history_size + 1
    /\ uuid = added
    /\ get_history_by_id(_history, 2) # None

----------------------------------------------------------------------------
\* C27: for every integer limit, list(limit) returns a prefix of the ledger's
\* most-recent-first sequence containing at most limit entries (exactly
\* min(limit, count()) entries for limit >= 0, none for a limit below 0), and
\* list() without a limit returns all entries.
C27_ListPrefix ==
    ret.op = "list" =>
        IF ret.arg = <<>> THEN ret.val = _history
        ELSE /\ ret.val = SubSeq(_history, 1, Len(ret.val))
             /\ Len(ret.val) <= Max(ret.arg[1], 0)
             /\ ret.arg[1] >= 0 => Len(ret.val) = Min(ret.arg[1], get_history_count(_history))

----------------------------------------------------------------------------
(* merge_results on lists of contact records (SpecMerge) *)

RECURSIVE Concat(_, _)
Concat(lists, k) == IF k > Len(lists) THEN <<>> ELSE lists[k].items \o Concat(lists, k + 1)

\* the records in iteration order: lists in call order, records in list order
InOrder == Concat(all_results, 1)

EmailOf(record) == Get(record, "email")

\* the positions of flat that hold the first record of an email
FirstSeen(flat) ==
    LET emails == [i \in DOMAIN flat |-> EmailOf(flat[i])]
    IN  {i \in DOMAIN flat :
            /\ Truthy(emails[i])
            /\ \A j \in 1..(i - 1) : emails[j] # emails[i]}

\* C7: merge_results returns no two records with the same email; a returned
\* record is the first one of its email in iteration order (later records of
\* that email and records without an email are not returned; "U01@x" and
\* "u01@x" are different emails), and while the result is not cut off every
\* email of the input has its first record returned.
C7_FirstSeenDedup ==
    merged_results # None =>
        /\ ~merged_results.raised
        /\ LET out == merged_results.value
               flat == InOrder
               first == FirstSeen(flat)
               firstRecords == {flat[i] : i \in first}
               outRecords == Range(out)
           IN  /\ \A a, b \in DOMAIN out : a < b => EmailOf(out[a]) # EmailOf(out[b])
               /\ \A a \in DOMAIN out : Truthy(EmailOf(out[a])) /\ out[a] \in firstRecords
               /\ \A i \in DOMAIN flat \ first : flat[i] \notin outRecords
               /\ Cardinality(first) <= MergeLimit => firstRecords \subseteq outRecords

\* two sources return contact 1, a record has no email field, and the same
\* address in upper case comes from the third source
C7_Witness ==
    /\ merged_results # None
    /\ ~merged_results.raised
    /\ LET out == Range(merged_results.value)
           flat == InOrder
       IN  /\ \E i, j \in DOMAIN flat :
                 /\ i < j
                 /\ EmailOf(flat[i]) = PyStr(Address(1, FALSE))
                 /\ EmailOf(flat[j]) = PyStr(Address(1, FALSE))
                 /\ flat[i] \in out
                 /\ flat[j] \notin out
           /\ \E i \in DOMAIN flat : "email" \notin DOMAIN flat[i].map
           /\ \E r \in out : EmailOf(r) = PyStr(Address(1, TRUE))

\* C8: merge_results returns exactly the first min(50, D) records of the
\* first-seen sequence, in first-seen order, D being the number of distinct
\* emails of the input: the n-th returned record is the n-th first-seen one.
C8_FirstFifty ==
    merged_results # None =>
        /\ ~merged_results.raised
        /\ LET out == merged_results.value
               flat == InOrder
               first == FirstSeen(flat)
               rank == [i \in first |-> Cardinality({j \in first : j <= i})]
           IN  /\ Len(out) = Min(MergeLimit, Cardinality(first))
               /\ \A i \in first : rank[i] <= MergeLimit => out[rank[i]] = flat[i]

\* more than 50 distinct emails came in and exactly 50 records came out
C8_Witness ==
    /\ merged_results # None
    /\ Cardinality(FirstSeen(InOrder)) > MergeLimit
    /\ Len(merged_results.value) = MergeLimit

----------------------------------------------------------------------------
(* services/ai_agent_service.py : AIAgentService.process_enrichment, one    *)
(* step per stretch of code between two awaits (SpecPipeline)               *)

\* request texts: an email address, one with blanks and capitals around it,
\* a domain, a single label, the empty text, a sentence, and an address
\* whose domain starts with a hyphen
Inputs ==
    { (<<"j", "@", "a", "c", ".", "c", "o">>),
      (<<" ", "J", "@", "A", "c", ".", "c", "o", " ">>),
      (<<"a", "c", ".", "c", "o">>),
      (<<"l", "o">>),
      <<>>,
      (<<"f", "i", "n", "d", " ", "c", "t", "o">>),
      (<<"j", "@", "-", ".", "c", "o">>) }

\* records that providers return
PdlAnn == PyDict([email |-> PyStr((<<"a", "@", "x", ".", "i", "o">>)), full_name |-> PyStr((<<"A", "n", "n">>)),
                  company |-> PyStr((<<"X", "c", "o">>)), source |-> PyInt(1)])

PdlBob == PyDict([full_name |-> PyStr((<<"B", "o", "b">>)), source |-> PyInt(1)])

FeAnn == PyDict([email |-> PyStr((<<"a", "@", "x", ".", "i", "o">>)), name |-> PyStr((<<"A", "l">>)), source |-> PyInt(2)])

FeCy == PyDict([email |-> PyStr((<<"c", "@", "x", ".", "i", "o">>)), name |-> PyStr((<<"C", "y">>)), source |-> PyInt(2)])

FeList == PyDict([email |-> PyList(<<PyStr((<<"c", "@", "x", ".", "i", "o">>))>>), source |-> PyInt(2)])

\* what the PDL search endpoint may answer
PdlReplies ==
    { Raises,
      Reply(500, PyDict(<<>>)),
      Reply(200, PyList(<<>>)),
      Reply(200, PyDict(<<>>)),
      Reply(200, PyDict([data |-> None])),
      Reply(200, PyDict([data |-> PyList(<<PdlBob, PdlAnn>>)])),
      Reply(200, PyDict([data |-> PyInt(7)])),
      Reply(200, PyDict([data |-> PyList(<<PyStr(<<"x">>)>>)])) }

\* what the FullEnrich bulk endpoint may answer
FullenrichReplies ==
    { Raises,
      Reply(401, PyDict(<<>>)),
      Reply(200, PyDict([enrichment_id |-> PyInt(1)])),
      Reply(200, PyDict([contacts |-> PyList(<<FeAnn, FeCy>>)])),
      Reply(200, PyDict([contacts |-> PyList(<<FeCy>>)])),
      Reply(200, PyDict([contacts |-> PyList(<<FeList>>)])),
      Reply(200, PyDict([contacts |-> PyInt(7)])) }

\* ticks a remote call takes
Latencies == {1, 2}

\* n copies of name
Repeat(name, n) == [i \in 1..n |-> name]

\* `if results: all_results.insert(0, results)`
PrependIfTruthy(lists, results) ==
    IF Truthy(results) THEN <<results>> \o lists ELSE lists

\* `if results: all_results.append(results)`
AppendIfTruthy(lists, results) ==
    IF Truthy(results) THEN Append(lists, results) ELSE lists

\* `if results: sources_used.append(name)`
NameIfTruthy(names, results, name) ==
    IF Truthy(results) THEN Append(names, name) ELSE names

\* the outcome of the early return for email, domain and use_ai_agent=False
FallbackResponse(input_text, type, elapsed) ==
    AIEnrichmentResponse(TRUE,
                         PyDict([input |-> PyStr(input_text), type |-> PyStr((<<"f", "a", "l", "l", "b", "a", "c", "k">>))]),
                         None, InputTypeOf(type), None, <<"fallback">>, Seconds(elapsed))

\* formatted_data and the outcome built from it
SuccessResponse(input_text, type, extracted, merged, used, elapsed) ==
    AIEnrichmentResponse(TRUE,
                         PyDict([query |-> PyStr(input_text),
                                 extracted_data |-> extracted,
                                 results |-> PyList(merged),
                                 total_results |-> PyInt(Len(merged)),
                                 sources_used |-> used]),
                         None, InputTypeOf(type), extracted, used, Seconds(elapsed))

\* a try block without its except clause: the exception leaves the function
Propagate(result, elapsed) == result

\* `except Exception as e` of process_enrichment: the failed outcome
ExceptException(result, elapsed) ==
    IF result.raised
    THEN Returned(AIEnrichmentResponse(FALSE, None, ErrorText(result.error), None, None,
                                       <<>>, Seconds(elapsed)))
    ELSE result

\* process_enrichment from call to return, each remote call taking latency
\* ticks: what it returns or raises, and the ticks it took. replies are the
\* answers to the PDL request, to the FullEnrich request of
\* enrich_from_fullenrich and to that of enrich_from_other_sources
process_enrichment(e, input_text, use_ai_agent, completion, replies, latency) ==
    LET type == classify_input(input_text)
    IN  IF ~use_ai_agent \/ type \in {"email", "domain"}
        THEN [result |-> ExceptException(Returned(FallbackResponse(input_text, type, 0)), 0),
              elapsed |-> 0]
        ELSE LET extracted == extract_data_from_natural_language(
                                  input_text, e.OPENAI_API_KEY, completion)
                 config == _load_enrichment_config(e)
                 pdl == enrich_from_pdl(config, replies[1])
                 fullenrich == enrich_from_fullenrich(config, replies[2])
                 other == enrich_from_other_sources(config, replies[3])
                 lists == AppendIfTruthy(AppendIfTruthy(AppendIfTruthy(
                              <<>>, pdl.results), fullenrich.results), other.results)
                 used == NameIfTruthy(NameIfTruthy(<<>>, pdl.results, "People Data Labs"),
                                      fullenrich.results, "FullEnrich")
                 elapsed == latency * ((IF e.OPENAI_API_KEY THEN 1 ELSE 0) + pdl.calls
                                       + fullenrich.calls + other.calls)
                 merged == merge_results(lists)
             IN  [result |-> ExceptException(
                                 IF merged.raised THEN merged
                                 ELSE Returned(SuccessResponse(input_text, type, extracted,
                                                               merged.value, used, elapsed)),
                                 elapsed),
                  elapsed |-> elapsed]

PipelineInit ==
    /\ env \in Environments
    /\ PipeIdle
    /\ MergeIdle
    /\ ApiIdle
    /\ CallIdle
    /\ _history = <<>>
    /\ added = 0
    /\ ret = [op |-> "init"]
    /\ run_adds = 0
    /\ uuid = 0
    /\ now = 0

outsidePipeline == <<_history, added, ret, run_adds, uuid, apiVars, loopVars, callVars>>

\* lines 278-291: up to the first await, or to the early return
ProcessEnrichmentCall(input_text, use_ai_agent) ==
    /\ pc = "idle"
    /\ \E completion \in Completions, latency \in Latencies :
          LET type == classify_input(input_text)
              openai == IF env.OPENAI_API_KEY THEN 1 ELSE 0
          IN  /\ request' = [input |-> input_text, use_ai_agent |-> use_ai_agent]
              /\ input_type' = InputTypeOf(type)
              /\ IF ~use_ai_agent \/ type \in {"email", "domain"}
                 THEN /\ outcome' = ExceptException(
                                        Returned(FallbackResponse(input_text, type, 0)), 0)
                      /\ extracted_data' = None
                      /\ pc' = "done"
                      /\ remote_calls' = <<>>
                      /\ UNCHANGED now
                 ELSE /\ extracted_data' = extract_data_from_natural_language(
                                               input_text, env.OPENAI_API_KEY, completion)
                      /\ outcome' = None
                      /\ pc' = "pdl"
                      /\ remote_calls' = Repeat("openai", openai)
                      /\ now' = now + latency * openai
    /\ start_time' = now
    /\ all_results' = <<>>
    /\ sources_used' = <<>>
    /\ UNCHANGED <<env, merged_results, pdl_results, fullenrich_results, other_results>>

\* a call of process_enrichment with any arguments
ProcessEnrichment ==
    /\ \E input_text \in Inputs, use_ai_agent \in BOOLEAN :
          ProcessEnrichmentCall(input_text, use_ai_agent)
    /\ UNCHANGED outsidePipeline

\* lines 293-297
EnrichFromPdl ==
    /\ pc = "pdl"
    /\ \E reply \in PdlReplies, latency \in Latencies :
          LET pdl == enrich_from_pdl(_load_enrichment_config(env), reply)
          IN  /\ pdl_results' = pdl.results
              /\ all_results' = AppendIfTruthy(all_results, pdl.results)
              /\ sources_used' = NameIfTruthy(sources_used, pdl.results, "People Data Labs")
              /\ remote_calls' = remote_calls \o Repeat("pdl", pdl.calls)
              /\ now' = now + latency * pdl.calls
    /\ pc' = "fullenrich"
    /\ UNCHANGED <<env, request, input_type, extracted_data, start_time, outcome,
                   merged_results, fullenrich_results, other_results>>
    /\ UNCHANGED outsidePipeline

\* lines 299-303
EnrichFromFullenrich ==
    /\ pc = "fullenrich"
    /\ \E reply \in FullenrichReplies, latency \in Latencies :
          LET fullenrich == enrich_from_fullenrich(_load_enrichment_config(env), reply)
          IN  /\ fullenrich_results' = fullenrich.results
              /\ all_results' = AppendIfTruthy(all_results, fullenrich.results)
              /\ sources_used' = NameIfTruthy(sources_used, fullenrich.results, "FullEnrich")
              /\ remote_calls' = remote_calls \o Repeat("fullenrich", fullenrich.calls)
              /\ now' = now + latency * fullenrich.calls
    /\ pc' = "other"
    /\ UNCHANGED <<env, request, input_type, extracted_data, start_time, outcome,
                   merged_results, pdl_results, other_results>>
    /\ UNCHANGED outsidePipeline

\* lines 305-308
EnrichFromOtherSources ==
    /\ pc = "other"
    /\ \E reply \in FullenrichReplies, latency \in Latencies :
          LET other == enrich_from_other_sources(_load_enrichment_config(env), reply)
          IN  /\ other_results' = other.results
              /\ all_results' = AppendIfTruthy(all_results, other.results)
              /\ remote_calls' = remote_calls \o Repeat("fullenrich", other.calls)
              /\ now' = now + latency * other.calls
    /\ pc' = "merge"
    /\ UNCHANGED <<env, request, input_type, extracted_data, sources_used, start_time,
                   outcome, merged_results, pdl_results, fullenrich_results>>
    /\ UNCHANGED outsidePipeline

\* lines 310-334: merge, the outcome, and the except clause
MergeAndReturn ==
    /\ pc = "merge"
    /\ LET merged == merge_results(all_results)
       IN  /\ merged_results' = merged
           /\ outcome' = ExceptException(
                  IF merged.raised THEN merged
                  ELSE Returned(SuccessResponse(request.input, input_type.value,
                                                extracted_data, merged.value, sources_used,
                                                now - start_time)),
                  now - start_time)
    /\ pc' = "done"
    /\ UNCHANGED <<env, request, input_type, extracted_data, sources_used, start_time,
                   remote_calls, all_results, now, pdl_results, fullenrich_results,
                   other_results>>
    /\ UNCHANGED outsidePipeline

PipelineNext ==
    \/ ProcessEnrichment
    \/ EnrichFromPdl
    \/ EnrichFromFullenrich
    \/ EnrichFromOtherSources
    \/ MergeAndReturn

SpecPipeline == PipelineInit /\ [][PipelineNext]_vars

----------------------------------------------------------------------------
(* process_enrichment (SpecPipeline) *)

\* the adapters' results in provider priority order
PriorityOrder == <<pdl_results, fullenrich_results, other_results>>

\* C9: in every state of a process_enrichment call, all_results holds the
\* non-empty adapter results in the order PDL, FullEnrich, other sources, and
\* the provider requests are sent in that order; so what merge returns is,
\* for each email, the first record of that email in priority order (the PDL
\* record when PDL and FullEnrich both return the email).
C9_PriorityOrder ==
    /\ all_results = SelectSeq(PriorityOrder, Truthy)
    /\ \A i, j \in DOMAIN remote_calls :
          i < j => ~(remote_calls[i] = "fullenrich" /\ remote_calls[j] = "pdl")
    /\ (merged_results # None /\ ~merged_results.raised) =>
          LET out == merged_results.value
              flat == Concat(SelectSeq(PriorityOrder, Truthy), 1)
              first == FirstSeen(flat)
          IN  \A a \in DOMAIN out : \E i \in first : out[a] = flat[i]

\* PDL and FullEnrich both returned a@x.io, and merge kept the PDL record
C9_Witness ==
    /\ pc = "done"
    /\ merged_results # None
    /\ ~merged_results.raised
    /\ pdl_results = PyList(<<PdlBob, PdlAnn>>)
    /\ fullenrich_results = PyList(<<FeAnn, FeCy>>)
    /\ merged_results.value = <<PdlAnn, FeCy>>

\* the exception that ended the try block of process_enrichment, if any
Fault == merged_results # None /\ merged_results.raised

\* C10: a process_enrichment call that has ended has returned an
\* AIEnrichmentResponse and raised nothing; the response is a success with
\* data and no error, or a failure with an error; and when an exception was
\* raised inside the call the response has success=False, a non-empty error
\* text and a processing time.
C10_NeverPropagates ==
    /\ pc # "done" => outcome = None
    /\ pc = "done" =>
          /\ outcome # None
          /\ ~outcome.raised
          /\ LET r == outcome.value
             IN  /\ r.success \in BOOLEAN
                 /\ r.processing_time # None
                 /\ r.processing_time.ticks = now - start_time
                 /\ r.success => r.data # None /\ r.error = None /\ ~Fault
                 /\ ~r.success => r.error # None /\ r.data = None
                 /\ Fault =>
                       /\ ~r.success
                       /\ r.error # None
                       /\ r.error.text = merged_results.error
                       /\ r.error.text # ""

\* PDL answered {"data": 7}; iterating it raised inside merge_results
C10_Witness ==
    /\ pc = "done"
    /\ pdl_results = PyInt(7)
    /\ Fault
    /\ outcome = Returned(AIEnrichmentResponse(FALSE, None,
                     ErrorText("'int' object is not iterable"), None, None, <<>>,
                     Seconds(now - start_time)))
    /\ now > start_time

\* C11: a process_enrichment call with use_ai_agent=False that has ended on
\* an input classified as an email has returned a success whose data holds a
\* non-null person with the (trimmed) input as its email; on an input
\* classified as a domain, a success whose data holds a non-null company with
\* the input as its domain.
C11_DirectLookup ==
    (pc = "done" /\ ~request.use_ai_agent /\ input_type.value \in {"email", "domain"}) =>
        /\ ~outcome.raised
        /\ outcome.value.success
        /\ TypeOf(outcome.value.data) = "dict"
        /\ LET data == outcome.value.data
               kind == IF input_type.value = "email" THEN "person" ELSE "company"
               field == IF input_type.value = "email" THEN "email" ELSE "domain"
           IN  /\ TypeOf(Get(data, kind)) = "dict"
               /\ Get(Get(data, kind), field) = PyStr(Strip(request.input))

\* a list whose items are all records (dicts)
IsListOfRecords(v) ==
    /\ TypeOf(v) = "list"
    /\ \A i \in DOMAIN v.items : TypeOf(v.items[i]) = "dict"

\* the natural-language call in progress has come back from the adapters
\* that precede these awaits
Past(awaits) == extracted_data # None /\ pc \in awaits

\* C16: what each of enrich_from_pdl, enrich_from_fullenrich and
\* enrich_from_other_sources returned is a list of records, whatever the
\* provider answered; without the provider's key it is the empty list and no
\* request was sent to the provider.
C16_AdaptersReturnLists ==
    /\ Past({"fullenrich", "other", "merge", "done"}) =>
          /\ IsListOfRecords(pdl_results)
          /\ ~env.PDL_API_KEY =>
                pdl_results = PyList(<<>>) /\ "pdl" \notin Range(remote_calls)
    /\ Past({"other", "merge", "done"}) =>
          /\ IsListOfRecords(fullenrich_results)
          /\ ~env.FULLENRICH_API_KEY =>
                fullenrich_results = PyList(<<>>) /\ "fullenrich" \notin Range(remote_calls)
    /\ Past({"merge", "done"}) =>
          /\ IsListOfRecords(other_results)
          /\ ~env.FULLENRICH_API_KEY => other_results = PyList(<<>>)

\* the requests of the call in progress that went to a provider
CallsTo(provider) == {i \in DOMAIN remote_calls : remote_calls[i] = provider}

\* C17: in every state of a process_enrichment call, each of OpenAI, PDL and
\* FullEnrich has been sent at most one request by this call.
C17_OneCallPerProvider ==
    \A provider \in {"openai", "pdl", "fullenrich"} : Cardinality(CallsTo(provider)) <= 1

\* C18: a natural-language call that has ended in a success names, in
\* sources, one source for each result list that it passed to merge_results:
\* as many names as lists, no name twice, and none when no list was passed.
C18_SourcesMatchLists ==
    (pc = "done" /\ extracted_data # None /\ outcome.value.success) =>
        /\ Len(outcome.value.sources) = Len(all_results)
        /\ Cardinality(Range(outcome.value.sources)) = Len(outcome.value.sources)

----------------------------------------------------------------------------
(* The HTTP handlers of api/enrichment.py, api/ai_enrichment.py and         *)
(* api/history.py on the event loop (Spec)                                  *)

MaxRequests == 2    \* HTTP requests of one run

MaxEnrichments == 1 \* of them to POST /api/enrich and POST /api/ai/enrich

\* raise HTTPException(status_code, detail)
HTTPException(status_code, detail) == [status_code |-> status_code, body |-> [detail |-> detail]]

\* a returned body
Ok(body) == [status_code |-> 200, body |-> body]

EnrichmentResponse(input_data, person, company, message, timestamp) ==
    [success |-> TRUE, input_data |-> input_data, person |-> person, company |-> company,
     message |-> message, timestamp |-> timestamp]

\* api/enrichment.py: enrich_data on the ledger h of its module; the reply
\* and the ledger afterwards
enrich_data(h, raw, lookup, id, timestamp) ==
    LET input_data == Lower(Strip(raw))
    IN  IF input_data = <<>>
        THEN [reply |-> HTTPException(400, "Input data cannot be empty"), history |-> h]
        ELSE IF ~is_email(input_data) /\ ~is_domain(input_data)
        THEN [reply |-> HTTPException(400,
                  "Invalid input. Please provide a valid email address or domain."),
              history |-> h]
        ELSE LET enriched_data == IF is_email(input_data)
                                  THEN enrich_email(input_data, lookup)
                                  ELSE enrich_domain(input_data, lookup)
                 message == IF is_email(input_data)
                            THEN "Email data enriched successfully using People Data Lab"
                            ELSE "Domain data enriched successfully using People Data Lab"
                 person == Get(enriched_data, "person")
                 company_data == CompanyOfResponse(enriched_data)
             IN  IF \/ Truthy(person) /\ ~ValidPersonInfo(person)
                    \/ Truthy(company_data) /\ ~ValidCompanyInfo(company_data)
                 THEN [reply |-> HTTPException(500, "Internal server error: validation error"),
                       history |-> h]
                 ELSE [reply |-> Ok(EnrichmentResponse(
                                      input_data,
                                      IF Truthy(person) THEN person ELSE None,
                                      IF Truthy(company_data) THEN company_data ELSE None,
                                      message, timestamp)),
                       history |-> add_to_history(h, id, input_data, person,
                                                  Get(enriched_data, "company"), timestamp)]

\* `a or b`
Or(a, b) == IF Truthy(a) THEN a ELSE b

\* api/ai_enrichment.py lines 46-76: (person_data, company_data) of the entry
HistoryData(data) ==
    IF TypeOf(data) # "dict" THEN << None, None >>
    ELSE IF "results" \in DOMAIN data.map /\ Truthy(data.map.results)
    THEN LET first_result == data.map.results.items[1]
         IN  << PyDict([full_name |-> Or(Get(first_result, "full_name"), Get(first_result, "name")),
                        job_title |-> Or(Get(first_result, "job_title"), Get(first_result, "title")),
                        email |-> Get(first_result, "email"),
                        linkedin_profile |-> Get(first_result, "linkedin_profile"),
                        company |-> Get(first_result, "company"),
                        location |-> Get(first_result, "location")]),
                IF Truthy(Get(first_result, "company"))
                THEN PyDict([name |-> Get(first_result, "company"),
                             domain |-> Get(first_result, "domain"),
                             industry |-> Get(first_result, "industry"),
                             size |-> Get(first_result, "company_size"),
                             location |-> Get(first_result, "location")])
                ELSE None >>
    ELSE IF "input" \in DOMAIN data.map
    THEN << PyDict([input |-> data.map.input]), None >>
    ELSE << None, None >>

\* an entry is stored for every outcome
StoreAlways(r) == TRUE

\* `if response.success and response.data`
StoreInHistory(r) == r.success /\ Truthy(r.data)

\* api/ai_enrichment.py: ai_enrich on the ledger h of its module, done being
\* what process_enrichment does when called; the reply and the ledger
\* afterwards
ai_enrich(h, e, input, use_ai_agent, done, id, timestamp) ==
    IF use_ai_agent /\ ~e.OPENAI_API_KEY
    THEN [reply |-> HTTPException(400,
              "AI Agent mode requires OPENAI_API_KEY to be set in environment variables"),
          history |-> h, called |-> FALSE]
    ELSE IF done.result.raised
    THEN [reply |-> HTTPException(500, "AI enrichment failed: " \o done.result.error),
          history |-> h, called |-> TRUE]
    ELSE IF StoreInHistory(done.result.value)
    THEN [reply |-> Ok(done.result.value),
          history |-> add_to_history(h, id, input, HistoryData(done.result.value.data)[1],
                                     HistoryData(done.result.value.data)[2], timestamp),
          called |-> TRUE]
    ELSE [reply |-> Ok(done.result.value), history |-> h, called |-> TRUE]

\* the answers that matter in environment e: a provider without a key is
\* sent no request, and without OPENAI_API_KEY no completion is requested
\* (reading self.openai_client raises)
CompletionsIn(e) == IF e.OPENAI_API_KEY THEN Completions ELSE {[kind |-> "raises"]}

PdlRepliesIn(e) == IF e.PDL_API_KEY THEN PdlReplies ELSE {Raises}

FullenrichRepliesIn(e) == IF e.FULLENRICH_API_KEY THEN FullenrichReplies ELSE {Raises}

\* everything process_enrichment can do on a request in an environment,
\* whatever the extractor and the providers answer
Outcomes ==
    UNION { { [e |-> e, input |-> args[1], use_ai_agent |-> args[2],
               done |-> process_enrichment(e, args[1], args[2], completion,
                                           <<r1, r2, r3>>, latency)] :
                completion \in CompletionsIn(e), r1 \in PdlRepliesIn(e),
                r2 \in FullenrichRepliesIn(e), r3 \in FullenrichRepliesIn(e),
                latency \in Latencies } :
            e \in Environments, args \in Inputs \X BOOLEAN }

\* HistoryItem(**item) of models/enrichment.py validates
ValidHistoryItem(item) ==
    /\ item.person = None \/ (TypeOf(item.person) = "dict" /\ ValidPersonInfo(item.person))
    /\ item.company = None \/ (TypeOf(item.company) = "dict" /\ ValidCompanyInfo(item.company))

\* api/history.py: get_history
get_history_api(h, limit) ==
    LET history_items == get_history(h, limit)
    IN  IF \E i \in DOMAIN history_items : ~ValidHistoryItem(history_items[i])
        THEN HTTPException(500, "Error retrieving history: validation error")
        ELSE Ok([items |-> history_items, total_count |-> Len(history_items)])

\* api/history.py: get_history_item
get_history_item(h, item_id) ==
    LET item == get_history_by_id(h, item_id)
    IN  IF item = None THEN HTTPException(404, "History item not found") ELSE Ok(item)

\* api/history.py: search_history
search_history_api(h, query) ==
    LET results == search_history(h, query)
    IN  Ok([query |-> query, results |-> results, count |-> Len(results)])

\* api/history.py: get_history_stats. The dict it returns reads
\* history_service.__class__._max_history_size, and the class has no such
\* attribute (__init__ sets it on the object), so building it raises
get_history_stats(h) ==
    LET total_count == get_history_count(h)
    IN  HTTPException(500, "Error retrieving history stats: type object has no attribute")

\* a literal segment of a path, and a path parameter (it matches any segment)
Lit(text) == [lit |-> text]

Param(name) == [param |-> name]

\* api/history.py: the routes of the router, in the order of their
\* decorators
HistoryRoutes ==
    << [method |-> "GET", path |-> <<Lit("history")>>, endpoint |-> "get_history"],
       [method |-> "GET", path |-> <<Lit("history"), Param("item_id")>>,
        endpoint |-> "get_history_item"],
       [method |-> "DELETE", path |-> <<Lit("history")>>, endpoint |-> "clear_history"],
       [method |-> "GET", path |-> <<Lit("history"), Lit("search"), Param("query")>>,
        endpoint |-> "search_history"],
       [method |-> "GET", path |-> <<Lit("history"), Lit("stats")>>,
        endpoint |-> "get_history_stats"],
       [method |-> "GET", path |-> <<Lit("history"), Lit("debug")>>,
        endpoint |-> "debug_history"] >>

\* the route matches the request: same method, and segment by segment the
\* same literal or a parameter
RouteMatches(route, method, path) ==
    /\ route.method = method
    /\ Len(route.path) = Len(path)
    /\ \A i \in DOMAIN path : route.path[i] = path[i] \/ "param" \in DOMAIN route.path[i]

\* the router hands the request to the first route that matches
Dispatch(routes, method, path) ==
    LET hits == {i \in DOMAIN routes : RouteMatches(routes[i], method, path)}
    IN  IF hits = {} THEN "not_found"
        ELSE routes[CHOOSE i \in hits : \A j \in hits : i <= j].endpoint

\* the item_id that a path segment which is not the text of a uuid4() value
\* stands for: it is the id of no entry
NotAUuid == 0
Init ==
    /\ env \in Environments
    /\ PipeIdle
    /\ MergeIdle
    /\ ApiIdle
    /\ CallIdle
    /\ _history = <<>>
    /\ added = 0
    /\ ret = [op |-> "init"]
    /\ run_adds = 0
    /\ uuid = 0
    /\ now = 0

Answer(route, reply) ==
    [request |-> requests + 1, route |-> route, status_code |-> reply.status_code,
     body |-> reply.body]

harness == <<_history, added, ret, run_adds>>

\* POST /api/enrich
EnrichData ==
    /\ requests < MaxRequests
    /\ enrichments < MaxEnrichments
    /\ \E raw \in Inputs, lookup \in Lookups(env) :
          LET done == enrich_data(history_service["enrichment"], raw, lookup, uuid + 1, now + 1)
              ok == done.reply.status_code = 200
          IN  /\ history_service' = [history_service EXCEPT !["enrichment"] = done.history]
              /\ response' = Answer("enrich_data", done.reply) @@ [input |-> raw]
              /\ uuid' = IF ok THEN uuid + 1 ELSE uuid
              /\ recorded' = IF ok THEN <<uuid + 1>> \o recorded ELSE recorded
    /\ now' = now + 1
    /\ requests' = requests + 1
    /\ enrichments' = enrichments + 1
    /\ UNCHANGED <<harness, mergeVars, pipeVars, loopVars, callVars>>

\* POST /api/ai/enrich
AiEnrich ==
    /\ requests < MaxRequests
    /\ enrichments < MaxEnrichments
    /\ \E call \in Outcomes :
          LET done == call.done
              end == ai_enrich(history_service["ai_enrichment"], env, call.input,
                               call.use_ai_agent, done, uuid + 1, now + done.elapsed)
              stored == end.history # history_service["ai_enrichment"]
          IN  /\ call.e = env
              /\ history_service' = [history_service EXCEPT !["ai_enrichment"] = end.history]
              /\ response' = Answer("ai_enrich", end.reply)
                              @@ [input |-> call.input, use_ai_agent |-> call.use_ai_agent]
              /\ uuid' = IF end.called THEN uuid + 1 ELSE uuid
              /\ now' = IF end.called THEN now + done.elapsed ELSE now
              /\ recorded' = IF stored THEN <<uuid + 1>> \o recorded ELSE recorded
    /\ requests' = requests + 1
    /\ enrichments' = enrichments + 1
    /\ UNCHANGED <<harness, mergeVars, pipeVars, loopVars, callVars>>

\* GET /api/history
ApiGetHistory ==
    /\ requests < MaxRequests
    /\ \E limit \in Limits :
          response' = Answer("get_history", get_history_api(history_service["history"], limit))
                      @@ [limit |-> limit]
    /\ requests' = requests + 1
    /\ UNCHANGED <<harness, uuid, now, mergeVars, pipeVars, history_service, recorded,
                   enrichments, loopVars, callVars>>

\* GET /api/history/{item_id}
ApiGetHistoryItem ==
    /\ requests < MaxRequests
    /\ \E item_id \in 1..(uuid + 1) :
          response' = Answer("get_history_item",
                             get_history_item(history_service["history"], item_id))
                      @@ [item_id |-> item_id]
    /\ requests' = requests + 1
    /\ UNCHANGED <<harness, uuid, now, mergeVars, pipeVars, history_service, recorded,
                   enrichments, loopVars, callVars>>

\* DELETE /api/history
ApiClearHistory ==
    /\ requests < MaxRequests
    /\ history_service' = [history_service EXCEPT
                              !["history"] = clear_history(history_service["history"])]
    /\ response' = Answer("clear_history", Ok([message |-> "History cleared successfully"]))
    /\ recorded' = <<>>
    /\ requests' = requests + 1
    /\ UNCHANGED <<harness, uuid, now, mergeVars, pipeVars, enrichments, loopVars, callVars>>

\* GET /api/history/search/{query}
ApiSearchHistory ==
    /\ requests < MaxRequests
    /\ \E query \in Queries :
          response' = Answer("search_history",
                             search_history_api(history_service["history"], query))
    /\ requests' = requests + 1
    /\ UNCHANGED <<harness, uuid, now, mergeVars, pipeVars, history_service, recorded,
                   enrichments, loopVars, callVars>>

\* GET /api/history/stats
ApiGetHistoryStats ==
    /\ requests < MaxRequests
    /\ LET endpoint == Dispatch(HistoryRoutes, "GET", <<Lit("history"), Lit("stats")>>)
           reply == IF endpoint = "get_history_item"
                    THEN get_history_item(history_service["history"], NotAUuid)
                    ELSE IF endpoint = "get_history_stats"
                    THEN get_history_stats(history_service["history"])
                    ELSE HTTPException(404, "Not Found")
       IN  response' = Answer("history_stats", reply) @@ [endpoint |-> endpoint]
    /\ requests' = requests + 1
    /\ UNCHANGED <<harness, uuid, now, mergeVars, pipeVars, history_service, recorded,
                   enrichments, loopVars, callVars>>
Next ==
    \/ EnrichData
    \/ AiEnrich
    \/ ApiGetHistory
    \/ ApiGetHistoryItem
    \/ ApiClearHistory
    \/ ApiSearchHistory
    \/ ApiGetHistoryStats

Spec == Init /\ [][Next]_vars

----------------------------------------------------------------------------
(* The handlers and the ledgers (Spec) *)

\* the entry with this id, wherever an enrichment handler stored it
Entry(id) ==
    LET stored == {m \in Modules : id \in Ids(history_service[m])}
        m == CHOOSE m \in stored : TRUE
    IN  get_history_by_id(history_service[m], id)

\* C4: the entries that successful POST /api/enrich and POST /api/ai/enrich
\* requests recorded since the last DELETE /api/history are what the history
\* interface returns: GET /api/history without a limit lists exactly them,
\* newest first, and counts them; GET /api/history/{id} finds each of them;
\* GET /api/history/search/{query} returns those whose input contains the
\* query.
C4_SharedLedger ==
    response # None =>
        /\ response.route = "get_history" =>
              /\ response.status_code = 200
              /\ response.limit = <<>> =>
                    /\ [i \in DOMAIN response.body.items |-> response.body.items[i].id]
                           = SliceTo(recorded, _max_history_size)
                    /\ response.body.total_count = Min(Len(recorded), _max_history_size)
        /\ response.route = "get_history_item" =>
              (response.status_code = 200 <=> response.item_id \in Range(recorded))
        /\ response.route = "search_history" =>
              [i \in DOMAIN response.body.results |-> response.body.results[i].id]
                  = SelectSeq(recorded,
                              LAMBDA id : Contains(Lower(Entry(id).input_data),
                                                   Lower(response.body.query)))

\* an answer of an enrichment handler that reports success
Success(r) == r.status_code = 200 /\ r.body.success

\* the ledger that the handler of a route writes to
LedgerOf(route) == IF route = "enrich_data" THEN "enrichment" ELSE "ai_enrichment"

\* C6: a step that answers POST /api/enrich or POST /api/ai/enrich with a
\* success has put exactly one new entry, with a fresh id, at the head of the
\* handler's ledger (dropping the oldest one at capacity) and changed no
\* other ledger; a step that answers with a failed outcome or an HTTP error
\* has changed no ledger.
C6_OneEntryPerSuccess ==
    [][ response'.route \in {"enrich_data", "ai_enrich"} =>
          LET m == LedgerOf(response'.route)
              before == history_service[m]
              after == history_service'[m]
          IN  /\ \A other \in Modules \ {m} : history_service'[other] = history_service[other]
              /\ IF Success(response')
                 THEN /\ after # <<>>
                      /\ Tail(after) = SliceTo(before, _max_history_size - 1)
                      /\ Head(after).id = uuid'
                      /\ Head(after).id \notin UNION {Ids(history_service[x]) : x \in Modules}
                      /\ Head(after).timestamp = now'
                 ELSE after = before
      ]_vars

\* a natural-language request was answered with a success and its entry is
\* the one entry of the AI module's ledger
C6_Witness ==
    /\ response # None
    /\ response.route = "ai_enrich"
    /\ Success(response)
    /\ response.body.input_type = InputTypeOf("natural_language")
    /\ Len(history_service["ai_enrichment"]) = 1
    /\ history_service["ai_enrichment"][1].id = uuid

\* the input of a POST /api/enrich request as enrich_data tests it
Accepted(raw) ==
    /\ Lower(Strip(raw)) # <<>>
    /\ is_email(Lower(Strip(raw))) \/ is_domain(Lower(Strip(raw)))

\* the part of an address after its "@"
AfterAt(email) == SubSeq(email, (CHOOSE i \in DOMAIN email : email[i] = "@") + 1, Len(email))

\* C12: every POST /api/enrich request whose input enrich_data accepts as an
\* email or a domain is answered with a success, whatever the PDL client
\* does; the answer carries the parsed upstream record, or the mock data
\* (for an email: person.email = input and company.domain = the part after
\* "@"; for a domain: company.domain = input).
C12_NeverHardFailure ==
    (response # None /\ response.route = "enrich_data" /\ Accepted(response.input)) =>
        LET input_data == Lower(Strip(response.input))
        IN  /\ response.status_code = 200
            /\ response.body.success
            /\ \/ \E lookup \in Lookups(env) :
                      /\ lookup.kind = "data"
                      /\ IF is_email(input_data)
                         THEN response.body.person
                                  = Get(_parse_pdl_person_response(lookup.data), "person")
                         ELSE response.body.company
                                  = Get(_parse_pdl_company_response(lookup.data), "company")
               \/ IF is_email(input_data)
                  THEN /\ Get(response.body.person, "email") = PyStr(input_data)
                       /\ Get(response.body.company, "domain") = PyStr(AfterAt(input_data))
                  ELSE Get(response.body.company, "domain") = PyStr(input_data)

\* C13: every POST /api/ai/enrich request whose input classify_input takes
\* for an email or a domain is answered with a success outcome, with
\* use_ai_agent true or false and with or without OPENAI_API_KEY.
C13_DirectPathNeedsNoLanguageKey ==
    (/\ response # None
     /\ response.route = "ai_enrich"
     /\ classify_input(response.input) \in {"email", "domain"}) =>
        /\ response.status_code = 200
        /\ response.body.success

\* C20: a step that answers a POST /api/enrich request whose input is empty
\* after trimming, or is neither an email nor a domain for classify_input
\* (a single label without a dot is neither), answers it with the
\* rejected-request status 400, which no lookup precedes, and leaves every
\* ledger as it was.
C20_RejectsInvalidInput ==
    [][ (/\ response'.route = "enrich_data"
         /\ \/ Strip(response'.input) = <<>>
            \/ classify_input(response'.input) = "natural_language") =>
            /\ response'.status_code = 400
            /\ history_service' = history_service
      ]_vars

----------------------------------------------------------------------------
\* C24: the history stats request succeeds in every ledger state and returns
\* the ledger's current total count together with the configured capacity
\* (100); it is never answered as not-found or as an internal error.
C24_StatsSucceed ==
    (response # None /\ response.route = "history_stats") =>
        /\ response.status_code = 200
        /\ response.body = [total_items |-> get_history_count(history_service["history"]),
                            max_history_size |-> _max_history_size]

----------------------------------------------------------------------------
\* C25: the input_data of every history entry equals the original raw input
\* string of the request that created it, character for character (no
\* trimming or case change), on both the direct and the AI-mode path.
C25_InputStoredAsTyped ==
    [][ (response'.route \in {"enrich_data", "ai_enrich"} /\ Success(response')) =>
           Head(history_service'[LedgerOf(response'.route)]).input_data = response'.input
      ]_vars

----------------------------------------------------------------------------
(* classify_input called on its own (SpecClassify)                          *)

MaxLen == 6         \* characters of an input text, blanks around it not counted

\* the texts of n characters over a letter, the hyphen, the dot and the at sign
RECURSIVE TextsOfLength(_)
TextsOfLength(n) ==
    IF n = 0 THEN {<<>>}
    ELSE {Append(text, c) : text \in TextsOfLength(n - 1), c \in {"a", "-", ".", "@"}}

\* texts with capitals, digits and the special characters of the local part,
\* with a top-level label that holds a digit, with labels of 63 and 64
\* characters, with a blank inside, and a sentence
OtherTexts ==
    { (<<"J", "_", "%", "+", "1", ".", "x", "@", "A", "-", "1", ".", "b", ".", "C", "O">>),
      (<<"a", "@", "b", ".", "c", "1">>),
      (<<"1", ".", "1">>),
      (<<"A", "1", "-", "b", ".", "I", "O">>),
      (<<"a", "_", "b", ".", "c", "o">>),
      Repeat("a", LabelMiddleMax + 2) \o (<<".", "c", "o">>),
      Repeat("a", LabelMiddleMax + 3) \o (<<".", "c", "o">>),
      (<<"a", " ", "b", ".", "c", "o">>),
      (<<"f", "i", "n", "d", " ", "c", "t", "o">>) }

ClassifyInit ==
    /\ \E text \in UNION {TextsOfLength(n) : n \in 0..MaxLen} \cup OtherTexts :
       \E blanks \in {<<>>, <<" ">>} :
          fn_call = [fn |-> "classify_input", input_text |-> blanks \o text \o blanks]
    /\ fn_result = None
    /\ env = NoKeys
    /\ PipeIdle
    /\ MergeIdle
    /\ history_service = [m \in Modules |-> <<>>]
    /\ response = None
    /\ requests = 0
    /\ enrichments = 0
    /\ recorded = <<>>
    /\ tasks = <<>>
    /\ running = 0
    /\ _history = <<>>
    /\ added = 0
    /\ ret = [op |-> "init"]
    /\ run_adds = 0
    /\ uuid = 0
    /\ now = 0

\* the call, from entry to return
ClassifyInput ==
    /\ fn_result = None
    /\ fn_result' = Returned(InputTypeOf(classify_input(fn_call.input_text)))
    /\ UNCHANGED <<fn_call, ledgerVars, mergeVars, pipeVars, apiVars, loopVars>>

ClassifyNext == ClassifyInput

SpecClassify == ClassifyInit /\ [][ClassifyNext]_vars

\* the email grammar: a local part, "@", a domain part, ".", and a top-level
\* label of two or more letters
EmailGrammar(s) ==
    \E at \in 2..Len(s), dot \in 4..Len(s) :
        /\ at + 1 < dot
        /\ dot + 2 <= Len(s)
        /\ s[at] = "@"
        /\ s[dot] = "."
        /\ Range(SubSeq(s, 1, at - 1)) \subseteq Alnum \cup {".", "_", "%", "+", "-"}
        /\ Range(SubSeq(s, at + 1, dot - 1)) \subseteq Alnum \cup {".", "-"}
        /\ Range(SubSeq(s, dot + 1, Len(s))) \subseteq Letters

\* the domain grammar: labels separated by single dots, each of 1 to 63
\* letters, digits and hyphens, none starting or ending with a hyphen
DomainGrammar(s) ==
    /\ s # <<>>
    /\ Range(s) \subseteq Alnum \cup {"-", "."}
    /\ s[1] \notin {"-", "."}
    /\ s[Len(s)] \notin {"-", "."}
    /\ \A i \in 1..(Len(s) - 1) :
          <<s[i], s[i + 1]>> \notin {<<".", ".">>, <<"-", ".">>, <<".", "-">>}
    /\ \A i \in 1..(Len(s) - LabelMiddleMax - 2) :
          "." \in Range(SubSeq(s, i, i + LabelMiddleMax + 2))

\* the text without the blanks around it
Trimmed(s) ==
    LET inked == {i \in DOMAIN s : s[i] # " "}
    IN  IF inked = {} THEN <<>>
        ELSE SubSeq(s, CHOOSE i \in inked : \A k \in inked : i <= k,
                       CHOOSE j \in inked : \A k \in inked : k <= j)

\* C19: a call of classify_input returns one kind for every text, and it is
\* Email when the trimmed text matches the email grammar, else Domain when
\* the trimmed text matches the domain grammar and holds a dot, else
\* NaturalLanguage (so for the empty text and for a single label).
C19_ClassifyTotalInOrder ==
    (fn_result # None /\ fn_call.fn = "classify_input") =>
        /\ ~fn_result.raised
        /\ LET t == Trimmed(fn_call.input_text)
           IN  fn_result.value.value =
                   IF EmailGrammar(t) THEN "email"
                   ELSE IF DomainGrammar(t) /\ "." \in Range(t) THEN "domain"
                   ELSE "natural_language"

\* a single label without a dot came back as NaturalLanguage
C19_Witness ==
    /\ fn_result # None
    /\ fn_call.fn = "classify_input"
    /\ fn_call.input_text = <<" ", "a", "-", "a", " ">>
    /\ fn_result = Returned(InputTypeOf("natural_language"))

----------------------------------------------------------------------------
(* extract_data_from_natural_language called on its own (SpecExtract)       *)

MaxSegments == 2    \* stretches of text in one completion

Cto == PyList(<<PyStr((<<"c", "t", "o">>))>>)

\* stretches of a completion's text: prose, whitespace, an object that is an
\* intent, a fenced object, a fenced stretch of prose, an object whose
\* target_roles is no list, a number, an object with a repeated key and a key
\* that is no field, and a fence mark on its own
Segments ==
    { <<Word>>,
      <<Space>>,
      <<OpenBrace, Member("target_roles", Cto), CloseBrace>>,
      <<JsonFence, Space, OpenBrace, Member("region", PyStr(<<"I", "N">>)), CloseBrace, Space, Fence>>,
      <<JsonFence, Word, Fence>>,
      <<OpenBrace, Member("target_roles", PyStr((<<"c", "t", "o">>))), CloseBrace>>,
      <<Scalar(PyInt(7))>>,
      <<OpenBrace, Member("keywords", PyList(<<>>)), Space, Member("note", PyInt(1)),
        Member("keywords", Cto), CloseBrace>>,
      <<JsonFence>> }

\* the texts made of n segments
RECURSIVE TextsOf(_)
TextsOf(n) ==
    IF n = 0 THEN {<<>>}
    ELSE {text \o segment : text \in TextsOf(n - 1), segment \in Segments}

Texts == UNION {TextsOf(n) : n \in 0..MaxSegments}

ExtractorQueries ==
    { (<<"C", "T", "O", "s", " ", "a", "t", " ", "f", "i", "n", "t", "e", "c", "h", " ",
         "s", "t", "a", "r", "t", "u", "p", "s", " ", "i", "n", " ", "I", "n", "d", "i", "a">>),
      (<<" ", "F", "i", "n", "d", " ", " ", "c", "t", "o", " ">>),
      (<<" ">>) }

ExtractInit ==
    /\ env \in {NoKeys, [NoKeys EXCEPT !.OPENAI_API_KEY = TRUE]}
    /\ \E query \in ExtractorQueries :
       \E completion \in {CompletionRaises, NoContent} \cup {Content(text) : text \in Texts} :
          fn_call = [fn |-> "extract_data_from_natural_language", query |-> query,
                     completion |-> completion]
    /\ fn_result = None
    /\ PipeIdle
    /\ MergeIdle
    /\ history_service = [m \in Modules |-> <<>>]
    /\ response = None
    /\ requests = 0
    /\ enrichments = 0
    /\ recorded = <<>>
    /\ tasks = <<>>
    /\ running = 0
    /\ _history = <<>>
    /\ added = 0
    /\ ret = [op |-> "init"]
    /\ run_adds = 0
    /\ uuid = 0
    /\ now = 0

\* the call, from entry to return
ExtractDataFromNaturalLanguage ==
    /\ fn_result = None
    /\ fn_result' = ExceptFallback(TryExtract(env.OPENAI_API_KEY, fn_call.completion),
                                   fn_call.query)
    /\ UNCHANGED <<fn_call, ledgerVars, mergeVars, pipeVars, apiVars, loopVars>>

ExtractNext == ExtractDataFromNaturalLanguage

SpecExtract == ExtractInit /\ [][ExtractNext]_vars

\* the words of a list joined without separators
RECURSIVE Joined(_)
Joined(words) == IF words = <<>> THEN <<>> ELSE Head(words) \o Joined(Tail(words))

\* the texts that the three parsing attempts look at
Candidates(content) ==
    {content}
      \cup (IF SearchFenced(content).matched THEN {SearchFenced(content).group} ELSE {})
      \cup (IF SearchBraces(content).matched THEN {SearchBraces(content).group} ELSE {})

\* text is JSON that makes an ExtractedData
IsIntent(text) ==
    /\ ~json_loads(text).raised
    /\ ~ExtractedDataFrom(json_loads(text).value).raised

\* the language capability failed, or nothing in its output is an intent
ExtractionFailed ==
    \/ ~env.OPENAI_API_KEY
    \/ fn_call.completion.kind \in {"raises", "no_content"}
    \/ /\ fn_call.completion.kind = "content"
       /\ \A text \in Candidates(fn_call.completion.content) : ~IsIntent(text)

\* C14: a call of extract_data_from_natural_language raises nothing; when the
\* credential is missing, the completion call fails or nothing in its output
\* parses into an intent, it returns target_roles ["executive"], industries
\* ["technology"], every other field but keywords None, and as keywords the
\* words of the query in order: lower case, non-empty, free of whitespace,
\* and together all the non-blank characters of the lower-cased query.
C14_FallbackNeverRaises ==
    (fn_result # None /\ fn_call.fn = "extract_data_from_natural_language") =>
        /\ ~fn_result.raised
        /\ ExtractionFailed =>
              LET x == fn_result.value
              IN  /\ x.target_roles = <<(<<"e", "x", "e", "c", "u", "t", "i", "v", "e">>)>>
                  /\ x.industries = <<(<<"t", "e", "c", "h", "n", "o", "l", "o", "g", "y">>)>>
                  /\ x.region = None
                  /\ x.company_size = None
                  /\ x.intent = None
                  /\ x.seniority_level = None
                  /\ x.department = None
                  /\ \A k \in DOMAIN x.keywords :
                        /\ x.keywords[k] # <<>>
                        /\ \A i \in DOMAIN x.keywords[k] :
                              x.keywords[k][i] \notin {" "} \cup Range(UpperCase)
                  /\ Joined(x.keywords)
                         = SelectSeq(Lower(fn_call.query), LAMBDA c : c # " ")
                  /\ Len(x.keywords)
                         = Cardinality({i \in DOMAIN fn_call.query :
                                           /\ fn_call.query[i] # " "
                                           /\ i = 1 \/ fn_call.query[i - 1] = " "})

\* the completion was prose; the query "CTOs at fintech startups in India"
\* came back as the fallback with its six lower-case words
C14_Witness ==
    /\ fn_result # None
    /\ env.OPENAI_API_KEY
    /\ fn_call.completion = Content(<<Word>>)
    /\ Len(fn_call.query) = 33
    /\ ~fn_result.raised
    /\ fn_result.value.keywords
           = << (<<"c", "t", "o", "s">>), (<<"a", "t">>),
                (<<"f", "i", "n", "t", "e", "c", "h">>),
                (<<"s", "t", "a", "r", "t", "u", "p", "s">>), (<<"i", "n">>),
                (<<"i", "n", "d", "i", "a">>) >>

\* the data that the parsing policy (a), (b), (c) yields: the whole text if
\* it parses, else the contents of the fenced block if there is one and they
\* parse, else the brace-delimited stretch if there is one and it parses
PolicyData(content) ==
    IF ~json_loads(content).raised THEN json_loads(content)
    ELSE IF /\ SearchFenced(content).matched
            /\ ~json_loads(SearchFenced(content).group).raised
    THEN json_loads(SearchFenced(content).group)
    ELSE IF /\ SearchBraces(content).matched
            /\ ~json_loads(SearchBraces(content).group).raised
    THEN json_loads(SearchBraces(content).group)
    ELSE Raised("JSONDecodeError")

\* C15: when the completion call returned text, the extractor returns the
\* intent made from the first of the three attempts that parses, taken in
\* the order whole text, fenced block, brace-delimited stretch (an attempt
\* that fails, for want of a match or of parseable contents, gives way to the
\* next), and the fallback only when none of them parses or the parsed data
\* is no intent.
C15_ThreeAttemptsInOrder ==
    (/\ fn_result # None
     /\ fn_call.fn = "extract_data_from_natural_language"
     /\ env.OPENAI_API_KEY
     /\ fn_call.completion.kind = "content") =>
        LET data == PolicyData(fn_call.completion.content)
            made == IF data.raised THEN data ELSE ExtractedDataFrom(data.value)
        IN  fn_result = IF made.raised THEN Returned(FallbackExtraction(fn_call.query))
                        ELSE made

----------------------------------------------------------------------------
(* _parse_pdl_person_response and _parse_pdl_company_response called on     *)
(* the data record of a provider's answer (SpecNormalize)                   *)

MaxProfiles == 2    \* entries of a person record's profiles
MaxJobs == 2        \* entries of a person record's experience

\* what a provider may send where a URL is expected
Urls ==
    { None, PyStr(<<>>),
      PyStr((<<"x", ".", "i", "o">>)),
      PyStr((<<" ", "x", ".", "i", "o", " ">>)),
      PyStr((<<"h", "t", "t", "p", ":", "/", "/", "x", ".", "i", "o">>)),
      PyStr((<<"h", "t", "t", "p", "s", ":", "/", "/", "x", ".", "i", "o", "/", "a">>)) }

\* the sequences of at most n elements of S
ListsUpTo(S, n) == UNION {[1..k -> S] : k \in 0..n}

ProfileRecords ==
    { PyDict([network |-> PyStr(network), url |-> url]) :
         network \in {(<<"l", "i", "n", "k", "e", "d", "i", "n">>), (<<"x">>)}, url \in Urls }

\* (website, linkedin_url) of an employer
EmployerUrls ==
    { <<None, None>>,
      <<PyStr((<<"x", ".", "i", "o">>)), PyStr((<<"h", "t", "t", "p", ":", "/", "/", "x", ".", "i", "o">>))>>,
      <<PyStr((<<" ", "x", ".", "i", "o", " ">>)), PyStr(<<>>)>>,
      <<PyStr((<<"h", "t", "t", "p", "s", ":", "/", "/", "x", ".", "i", "o", "/", "a">>)), PyStr((<<"x", ".", "i", "o">>))>> }

JobRecords ==
    { PyDict([is_primary |-> PyBool(primary),
              company |-> PyDict([name |-> PyStr((<<"A", "c">>)), website |-> urls[1],
                                  linkedin_url |-> urls[2]])]) :
         primary \in BOOLEAN, urls \in EmployerUrls }

ProfileLists == ListsUpTo(ProfileRecords, MaxProfiles)

JobLists == ListsUpTo(JobRecords, MaxJobs)

\* the data record of a company answer
CompanyRecords ==
    { PyDict([name |-> name, domain |-> domain]) : name \in {None, PyStr((<<"A", "c">>))}, domain \in Urls }

NormalizeInit ==
    /\ \/ \E profiles \in ProfileLists, experience \in JobLists :
             fn_call = [fn |-> "_parse_pdl_person_response",
                        data |-> PyDict([first_name |-> PyStr((<<"J", "o">>)),
                                         profiles |-> PyList(profiles),
                                         experience |-> PyList(experience)])]
       \/ \E data \in CompanyRecords :
             fn_call = [fn |-> "_parse_pdl_company_response", data |-> data]
    /\ fn_result = None
    /\ env = NoKeys
    /\ PipeIdle
    /\ MergeIdle
    /\ history_service = [m \in Modules |-> <<>>]
    /\ response = None
    /\ requests = 0
    /\ enrichments = 0
    /\ recorded = <<>>
    /\ tasks = <<>>
    /\ running = 0
    /\ _history = <<>>
    /\ added = 0
    /\ ret = [op |-> "init"]
    /\ run_adds = 0
    /\ uuid = 0
    /\ now = 0

\* the call of enrich_email on a provider's data record
ParsePdlPersonResponse ==
    /\ fn_result = None
    /\ fn_call.fn = "_parse_pdl_person_response"
    /\ fn_result' = Returned(_parse_pdl_person_response(fn_call.data))
    /\ UNCHANGED <<fn_call, ledgerVars, mergeVars, pipeVars, apiVars, loopVars>>

\* the call of enrich_domain on a provider's data record
ParsePdlCompanyResponse ==
    /\ fn_result = None
    /\ fn_call.fn = "_parse_pdl_company_response"
    /\ fn_result' = Returned(_parse_pdl_company_response(fn_call.data))
    /\ UNCHANGED <<fn_call, ledgerVars, mergeVars, pipeVars, apiVars, loopVars>>

NormalizeNext ==
    \/ ParsePdlPersonResponse
    \/ ParsePdlCompanyResponse

SpecNormalize == NormalizeInit /\ [][NormalizeNext]_vars

\* the field is absent, or a text that starts with http:// or https://
AbsentOrWithScheme(v) == v = None \/ (TypeOf(v) = "str" /\ HasScheme(v))

\* C26: every URL-shaped field produced by normalization (person
\* linkedin_profile, company website, company linkedin_url) is either absent
\* or starts with http:// or https://: a value lacking a scheme is prefixed
\* with https://, in both the person-response and the company-response
\* normalization.
C26_UrlsHaveScheme ==
    fn_result # None =>
        LET person == Get(fn_result.value, "person")
            company == Get(fn_result.value, "company")
        IN  /\ person # None => AbsentOrWithScheme(Get(person, "linkedin_profile"))
            /\ company # None =>
                  /\ AbsentOrWithScheme(Get(company, "website"))
                  /\ AbsentOrWithScheme(Get(company, "linkedin_url"))

----------------------------------------------------------------------------
(* Handler coroutines sharing one HistoryService object on the event loop   *)
(* (SpecConc). Every handler is an `async def`, so all of them run on the   *)
(* one thread of the event loop; add_to_history and the other methods are   *)
(* plain functions, taken here statement by statement.                      *)

MaxTasks == 3       \* requests in progress at the same time

Tasks == 1..MaxTasks

\* what a handler does with the object: enrich_data adds and counts, the
\* others call one reading method
Kinds == {"enrich_data", "get_history", "search_history", "get_history_count"}

\* control passes to another coroutine after every statement
SuspendsAnywhere(at) == TRUE

\* control returns to the event loop only where a coroutine awaits or ends:
\* "ready" is a coroutine waiting to be resumed, "done" one that has returned
Suspends(at) == at \in {"ready", "done"}

\* the object has served 99 calls before: its ledger is one entry short of
\* capacity
ConcInit ==
    /\ _history = AfterAdds(_max_history_size - 1)
    /\ added = _max_history_size - 1
    /\ uuid = _max_history_size - 1
    /\ now = _max_history_size - 1
    /\ tasks \in [Tasks -> {[kind |-> kind, at |-> "ready", history_id |-> 0,
                             sliced |-> <<>>, observed |-> -1] : kind \in Kinds}]
    /\ running = 0
    /\ ret = [op |-> "init"]
    /\ run_adds = 0
    /\ MergeIdle
    /\ env = NoKeys
    /\ PipeIdle
    /\ history_service = [m \in Modules |-> <<>>]
    /\ response = None
    /\ requests = 0
    /\ enrichments = 0
    /\ recorded = <<>>
    /\ CallIdle

outsideLoop == <<ret, run_adds, mergeVars, pipeVars, apiVars, callVars>>

\* the event loop lets task t execute its next statement
Scheduled(t) == running \in {0, t}

\* task t moves to `at`, and the loop keeps executing it unless it suspends
Goto(t, at, fields) ==
    /\ tasks' = [tasks EXCEPT ![t] = fields @@ [at |-> at] @@ tasks[t]]
    /\ running' = IF Suspends(at) THEN 0 ELSE t

\* api/enrichment.py line 78: history_id = str(uuid.uuid4())
Uuid4 ==
    \E t \in Tasks :
        /\ Scheduled(t)
        /\ tasks[t].kind = "enrich_data"
        /\ tasks[t].at = "ready"
        /\ uuid' = uuid + 1
        /\ Goto(t, "insert", [history_id |-> uuid + 1])
        /\ UNCHANGED <<_history, added, now>>
        /\ UNCHANGED outsideLoop

\* history_service.py lines 28-36: self._history.insert(0, history_item)
Insert ==
    \E t \in Tasks :
        /\ Scheduled(t)
        /\ tasks[t].at = "insert"
        /\ _history' = <<HistoryItem(tasks[t].history_id, RepeatedArgs[1], RepeatedArgs[2],
                                     RepeatedArgs[3], now + 1)>> \o _history
        /\ now' = now + 1
        /\ added' = added + 1
        /\ Goto(t, "test", <<>>)
        /\ UNCHANGED uuid
        /\ UNCHANGED outsideLoop

\* line 39: if len(self._history) > self._max_history_size
TestSize ==
    \E t \in Tasks :
        /\ Scheduled(t)
        /\ tasks[t].at = "test"
        /\ Goto(t, IF Len(_history) > _max_history_size THEN "slice" ELSE "count", <<>>)
        /\ UNCHANGED <<_history, added, uuid, now>>
        /\ UNCHANGED outsideLoop

\* line 40, right-hand side: self._history[:self._max_history_size]
Slice ==
    \E t \in Tasks :
        /\ Scheduled(t)
        /\ tasks[t].at = "slice"
        /\ Goto(t, "assign", [sliced |-> SliceTo(_history, _max_history_size)])
        /\ UNCHANGED <<_history, added, uuid, now>>
        /\ UNCHANGED outsideLoop

\* line 40: self._history = ...
Assign ==
    \E t \in Tasks :
        /\ Scheduled(t)
        /\ tasks[t].at = "assign"
        /\ _history' = tasks[t].sliced
        /\ Goto(t, "count", [sliced |-> <<>>])
        /\ UNCHANGED <<added, uuid, now>>
        /\ UNCHANGED outsideLoop

\* api/enrichment.py lines 88-91: get_history_count(), print, return
Count ==
    \E t \in Tasks :
        /\ Scheduled(t)
        /\ tasks[t].at = "count"
        /\ Goto(t, "done", [observed |-> get_history_count(_history)])
        /\ UNCHANGED <<_history, added, uuid, now>>
        /\ UNCHANGED outsideLoop

\* a handler that calls get_history(), search_history(query) or
\* get_history_count() and returns: the number of entries it saw
Read ==
    \E t \in Tasks :
        /\ Scheduled(t)
        /\ tasks[t].kind # "enrich_data"
        /\ tasks[t].at = "ready"
        /\ Goto(t, "done",
                [observed |->
                    CASE tasks[t].kind = "get_history" -> Len(get_history(_history, <<>>))
                      [] tasks[t].kind = "search_history" ->
                            Len(search_history(_history, RepeatedArgs[1]))
                      [] tasks[t].kind = "get_history_count" -> get_history_count(_history)])
        /\ UNCHANGED <<_history, added, uuid, now>>
        /\ UNCHANGED outsideLoop

ConcNext ==
    \/ Uuid4
    \/ Insert
    \/ TestSize
    \/ Slice
    \/ Assign
    \/ Count
    \/ Read

SpecConc == ConcInit /\ [][ConcNext]_vars

\* the tasks whose add_to_history call has returned
Added == {t \in Tasks : tasks[t].kind = "enrich_data" /\ tasks[t].at \in {"count", "done"}}

\* C5: with any number of handlers in progress on one HistoryService object,
\* no get_history, search_history or get_history_count call sees more than
\* 100 entries; whenever another handler can run, the ledger holds
\* min(adds so far, 100) entries; and the entry of every add_to_history call
\* that has returned is in the ledger, newest first, none of them lost.
C5_AddIsAtomic ==
    /\ \A t \in Tasks : tasks[t].observed <= _max_history_size
    /\ running = 0 =>
          /\ Len(_history) = Min(added, _max_history_size)
          /\ NewestFirst(_history)
    /\ \A t \in Added : tasks[t].history_id \in Ids(_history)

\* two enrich_data handlers have both returned, the second one on a full
\* ledger; their entries are the two newest, and a reader counted 100
C5_Witness ==
    /\ \E t1, t2 \in Tasks :
          /\ t1 # t2
          /\ tasks[t1].kind = "enrich_data" /\ tasks[t1].at = "done"
          /\ tasks[t2].kind = "enrich_data" /\ tasks[t2].at = "done"
          /\ _history[1].id = tasks[t2].history_id
          /\ _history[2].id = tasks[t1].history_id
          /\ tasks[t1].observed = _max_history_size
    /\ \E t \in Tasks :
          /\ tasks[t].kind = "get_history" /\ tasks[t].at = "done"
          /\ tasks[t].observed = _max_history_size
    /\ added = _max_history_size + 1
    /\ Len(_history) = _max_history_size

====
